---------------------------- MODULE Spec2Model ----------------------------
(***************************************************************************)
(* The fetch-orchestration layer of services/stock_service.py:             *)
(*   - validate_response_data, _fmp_get, fetch_stock_data (fetch client),  *)
(*   - RateLimiter.wait_if_needed (sliding-window limiter),                *)
(*   - BatchProcessor.process_ticker / process_batch / get_statistics and  *)
(*     fetch_stock_data_batch (batch orchestrator).                        *)
(*                                                                         *)
(* Twelve specifications share the variables:                              *)
(*   Spec        the batch orchestrator: a pool of MAX_WORKERS threads,    *)
(*               the BatchState lock, the retry queue and the retry rounds.*)
(*               A whole fetch_stock_data call is one step there.          *)
(*   SpecLimiter threads calling RateLimiter.wait_if_needed against a      *)
(*               clock.                                                    *)
(*   SpecFetch   the orchestrator with one identifier per batch, against a *)
(*               clock: wait_if_needed, every _fmp_get call, the cache and *)
(*               the cache file spelled out step by step.                  *)
(*   SpecAdmit   two pool threads running wait_if_needed,                  *)
(*               handle_rate_limit and the GET again and again, against a  *)
(*               clock.                                                    *)
(*   SpecValidate validate_response_data called on a document and an       *)
(*               endpoint.                                                 *)
(*   SpecCooldown two pool threads sending GETs that the provider may      *)
(*               answer with a 429, against a clock.                       *)
(*   SpecStore   SpecFetch with the import-time load_cache, clear_cache    *)
(*               and a save_cache whose disk operations may fail.          *)
(*   SpecRounds  the orchestrator of Spec against a clock, with the        *)
(*               cooldown between two retry rounds as a timed sleep.       *)
(*   SpecPersist two pool threads putting entries into stock_cache and     *)
(*               persisting it, save_cache spelled out step by step.       *)
(*   SpecSoft    SpecRounds with each failed fetch told apart: a document  *)
(*               that fails validation or a transport failure.             *)
(*   SpecKey     the cache key of _fmp_get computed for two requests.      *)
(*   SpecApiKey  validate_api_key called with or without FMP_API_KEY, on   *)
(*               every answer of the test request.                         *)
(***************************************************************************)
EXTENDS Integers, Sequences, FiniteSets, TLC

(***************************************************************************)
(* Bounds of the model.                                                    *)
(***************************************************************************)
\* longest identifier list handed to fetch_stock_data_batch
MaxTickers == 4
\* the last instant of the clock
MaxTime == 9

(***************************************************************************)
(* Program constants (stock_service.py lines 17-32).  MAX_QUEUE_SIZE is    *)
(* 1000 in the source; the model keeps the retry queue's capacity below    *)
(* the longest round so that a full queue is reachable.                    *)
(***************************************************************************)
MAX_WORKERS == 3
MAX_QUEUE_SIZE == 2
\* The limiter's constants keep the proportions of the source (a window of
\* 60 s holding 30 requests): a window of 3 time units holding 2 requests.
WINDOW_SIZE == 3
MAX_REQUESTS_PER_WINDOW == 2
\* REQUEST_DELAY (2.0 s, with a jitter below one second), RATE_LIMIT_DELAY
\* (60 s, the length of the window) and CACHE_EXPIRY (a day), in time units
REQUEST_DELAY == 1
RATE_LIMIT_DELAY == 3
CACHE_EXPIRY == 4
\* process_batch(self, tickers, max_retries = 3)
max_retries == 3

NoneVal == "None"

Range(s) == {s[k] : k \in 1..Len(s)}

\* an update that forgets the entries of f
UpdateForgetting(f, g) == g

\* dict.update: the entries of g replace and extend those of f
Update(f, g) ==
    [x \in (DOMAIN f) \cup (DOMAIN g) |-> IF x \in DOMAIN g THEN g[x] ELSE f[x]]

EmptyDict == [x \in {} |-> NoneVal]

(***************************************************************************)
(* Documents.  A JSON document is a list of records or a single record; a  *)
(* record is modelled by the set of its field names (validation and the    *)
(* record mapping never look at a value).                                  *)
(***************************************************************************)
ListDoc(recs) == [kind |-> "list", recs |-> recs]
ObjectDoc(fields) == [kind |-> "object", recs |-> <<fields>>]
\* Python's None where a document is expected
NoneDoc == [kind |-> "none", recs |-> <<>>]

\* Python's `not data`: an empty list, an empty dict, or None
Falsy(data) ==
    \/ data = NoneDoc
    \/ data.kind = "list" /\ Len(data.recs) = 0
    \/ data.kind = "object" /\ data.recs[1] = {}

\* the endpoint kinds that carry a set of required fields
RequiredFields(base) ==
    CASE base = "profile" -> {"symbol", "price", "mktCap"}
      [] base = "key-metrics-ttm" -> {"peRatio", "pbRatio", "roe"}
      [] base = "ratios-ttm" -> {"priceEarningsRatio", "priceToBookRatio", "returnOnEquity"}
      [] base = "market-sentiment" -> {"rating", "targetPrice", "recommendation"}
      [] base = "financial-growth-ttm" -> {"revenueGrowth", "netIncomeGrowth", "epsgrowth"}
      [] base = "enterprise-values" -> {"enterpriseValue", "enterpriseValueMultiple"}
      [] OTHER -> {}

StatementKinds == {"balance-sheet-statement", "income-statement", "cash-flow-statement"}

AnyOfKinds == {"key-metrics-ttm", "ratios-ttm", "market-sentiment",
               "financial-growth-ttm", "enterprise-values"}

\* isinstance(data, list) and len(data) > 0
NonEmptyList(data) == data.kind = "list" /\ Len(data.recs) > 0

\* base_endpoint = endpoint.split('/')[0], the endpoint being the sequence of
\* its '/'-separated segments
BaseEndpoint(endpoint) == endpoint[1]

\* one of the fields is enough
AllFieldsInLoose(fields, rec) == \E f \in fields : f \in rec

\* all(field in data[0] for field in required_fields)
AllFieldsIn(fields, rec) == \A f \in fields : f \in rec

\* every field is asked for
AnyFieldInStrict(fields, rec) == \A f \in fields : f \in rec

\* any(field in data[0] for field in required_fields)
AnyFieldIn(fields, rec) == \E f \in fields : f \in rec

\* validate_response_data(data, endpoint), endpoint given by its base name
validate_response_data(data, base) ==
    IF Falsy(data) THEN FALSE
    ELSE IF base = "profile" THEN
        NonEmptyList(data) /\ AllFieldsIn(RequiredFields(base), data.recs[1])
    ELSE IF base \in StatementKinds THEN
        NonEmptyList(data)
    ELSE IF base \in AnyOfKinds THEN
        NonEmptyList(data) /\ AnyFieldIn(RequiredFields(base), data.recs[1])
    ELSE TRUE

(***************************************************************************)
(* The provider's answers to one GET.  status 0 stands for session.get     *)
(* raising a RequestException (no response at all); Malformed is a body    *)
(* response.json() cannot parse.                                           *)
(***************************************************************************)
Malformed == [kind |-> "malformed", recs |-> <<>>]

\* the fields the provider's TTM documents carry (the *TTM names that
\* fetch_stock_data reads)
ProviderFields(base) ==
    CASE base = "key-metrics-ttm" -> {"peRatioTTM", "pbRatioTTM", "roeTTM"}
      [] base = "ratios-ttm" -> {"returnOnEquityTTM", "returnOnAssetsTTM"}
      [] base = "profile" -> {"symbol", "price", "mktCap", "companyName"}
      [] base = "market-sentiment" -> {"rating", "targetPrice"}
      [] base = "financial-growth-ttm" -> {"revenueGrowth", "netIncomeGrowth", "epsGrowth"}
      [] OTHER -> {"date"}

SampleDocs(base) ==
    { ListDoc(<<>>),
      ListDoc(<<{"date"}>>),
      ListDoc(<<ProviderFields(base)>>),
      ListDoc(<<RequiredFields(base) \cup {"date"}>>) }

Responses(base) ==
    {[status |-> s, body |-> NoneDoc] : s \in {0, 401, 429, 404, 500}}
    \cup {[status |-> 200, body |-> b] : b \in SampleDocs(base) \cup {Malformed}}

\* an _fmp_get that also caches the document that failed validation
FmpGetAnswerCachingInvalid(base, resp) ==
    CASE resp.status = 429 ->
            [ret |-> NoneDoc, store |-> FALSE, cooldown |-> TRUE, escapes |-> "none"]
      [] resp.status # 429 /\ resp.status # 200 ->
            [ret |-> NoneDoc, store |-> FALSE, cooldown |-> FALSE, escapes |-> "none"]
      [] OTHER ->
            IF resp.body = Malformed
            THEN [ret |-> NoneDoc, store |-> FALSE, cooldown |-> FALSE, escapes |-> "none"]
            ELSE IF ~validate_response_data(resp.body, base)
            THEN [ret |-> NoneDoc, store |-> TRUE, cooldown |-> FALSE, escapes |-> "none"]
            ELSE [ret |-> resp.body, store |-> TRUE, cooldown |-> FALSE, escapes |-> "none"]

(***************************************************************************)
(* _fmp_get after a cache miss (lines 211-255): what the call returns for  *)
(* an answer of the provider, whether the document is cached, whether the  *)
(* RATE_LIMIT_DELAY cooldown is slept, and the exception that leaves the   *)
(* function ("none": every raise is caught by one of the except clauses).  *)
(***************************************************************************)
FmpGetAnswer(base, resp) ==
    CASE resp.status = 0 ->      \* RequestException, caught at line 247
            [ret |-> NoneDoc, store |-> FALSE, cooldown |-> FALSE, escapes |-> "none"]
      [] resp.status = 401 ->    \* raise ValueError, caught at line 253
            [ret |-> NoneDoc, store |-> FALSE, cooldown |-> FALSE, escapes |-> "none"]
      [] resp.status = 429 ->
            [ret |-> NoneDoc, store |-> FALSE, cooldown |-> TRUE, escapes |-> "none"]
      [] resp.status = 404 ->
            [ret |-> NoneDoc, store |-> FALSE, cooldown |-> FALSE, escapes |-> "none"]
      [] resp.status \notin {0, 401, 429, 404, 200} ->   \* HTTPError, caught at 247
            [ret |-> NoneDoc, store |-> FALSE, cooldown |-> FALSE, escapes |-> "none"]
      [] OTHER ->
            IF resp.body = Malformed      \* JSONDecodeError, caught at 250
            THEN [ret |-> NoneDoc, store |-> FALSE, cooldown |-> FALSE, escapes |-> "none"]
            ELSE IF ~validate_response_data(resp.body, base)
            THEN [ret |-> NoneDoc, store |-> FALSE, cooldown |-> FALSE, escapes |-> "none"]
            ELSE [ret |-> resp.body, store |-> TRUE, cooldown |-> FALSE, escapes |-> "none"]

\* the error taxonomy of an answer
FailureKind(base, resp) ==
    CASE resp.status = 401 -> "auth"
      [] resp.status = 429 -> "rate_limited"
      [] resp.status = 404 -> "not_found"
      [] resp.status = 200 /\ resp.body # Malformed ->
            IF validate_response_data(resp.body, base) THEN "none" ELSE "validation"
      [] OTHER -> "transport"

(***************************************************************************)
(* fetch_stock_data (lines 267-354): the eight _fmp_get calls in source    *)
(* order.  key_metrics and ratios are subscripted unguarded, so a None     *)
(* there raises TypeError, which the except clause turns into None; the    *)
(* other documents are used behind `if x else None` or only stored raw.    *)
(***************************************************************************)
Endpoints ==
    << [var |-> "profile_data",  base |-> "profile",                 required |-> FALSE],
       [var |-> "balance_sheet", base |-> "balance-sheet-statement", required |-> FALSE],
       [var |-> "income_stmt",   base |-> "income-statement",        required |-> FALSE],
       [var |-> "cash_flow",     base |-> "cash-flow-statement",     required |-> FALSE],
       [var |-> "key_metrics",   base |-> "key-metrics-ttm",         required |-> TRUE],
       [var |-> "ratios",        base |-> "ratios-ttm",              required |-> TRUE],
       [var |-> "sentiment",     base |-> "market-sentiment",        required |-> FALSE],
       [var |-> "growth",        base |-> "financial-growth-ttm",    required |-> FALSE] >>

NumEndpoints == Len(Endpoints)

\* The record fetch_stock_data builds, given for every endpoint whether its
\* document is None: "None", or a record that is "full" (every raw document
\* present) or "partial" (some optional document is None).
FetchRecord(req_none, any_none) ==
    IF req_none THEN NoneVal ELSE IF any_none THEN "partial" ELSE "full"

\* One _fmp_get as seen by fetch_stock_data: a fresh cache hit, or one of the
\* provider's answers.
CallOutcomes(e) ==
    {[none |-> FALSE, kind |-> "none", hit |-> TRUE]}
    \cup {[none |-> FmpGetAnswer(e.base, r).ret = NoneDoc,
           kind |-> FailureKind(e.base, r), hit |-> FALSE] : r \in Responses(e.base)}

\* the identifier's failure is the first None among the required documents
FetchStep(acc, e, o) ==
    [req_none |-> acc.req_none \/ (e.required /\ o.none),
     any_none |-> acc.any_none \/ o.none,
     cause    |-> IF acc.cause = "none" /\ e.required /\ o.none THEN o.kind ELSE acc.cause]

\* every way the first n calls of fetch_stock_data can turn out
FetchRuns[n \in 0..NumEndpoints] ==
    IF n = 0
    THEN {[req_none |-> FALSE, any_none |-> FALSE, cause |-> "none"]}
    ELSE {FetchStep(acc, Endpoints[n], o) :
             acc \in FetchRuns[n - 1], o \in CallOutcomes(Endpoints[n])}

\* the failures that are to stay with their identifier
ContainedKinds == {"rate_limited", "not_found", "transport", "validation"}

\* the error class of a failure: the authentication failure, or a contained one
ErrorClass(kind) ==
    IF kind = "auth" THEN "auth" ELSE IF kind \in ContainedKinds THEN "contained" ELSE "none"

\* fetch_stock_data's result, with the class of the failure that caused a None
FetchOutcomes ==
    {[rec |-> FetchRecord(a.req_none, a.any_none), cause |-> ErrorClass(a.cause)] :
        a \in FetchRuns[NumEndpoints]}


(***************************************************************************)
(* BatchProcessor.get_statistics (lines 452-461).  success_rate is the     *)
(* quotient processed / (processed + failed), kept as numerator and        *)
(* denominator; the else branch yields the integer 0.                      *)
(***************************************************************************)
\* the quotient without the guard
SuccessRateUnguarded(np, nf) == [num |-> np, den |-> np + nf]

SuccessRate(np, nf) ==
    IF np + nf > 0 THEN [num |-> np, den |-> np + nf] ELSE [num |-> 0, den |-> 1]

Statistics(processed, failed) ==
    [processed    |-> Cardinality(processed),
     failed       |-> Cardinality(failed),
     success_rate |-> SuccessRate(Cardinality(processed), Cardinality(failed))]

(***************************************************************************)
(* State.                                                                  *)
(***************************************************************************)
VARIABLES
    \* fetch_stock_data_batch(tickers, batch_size): its arguments and locals
    input, batch_size, i, all_results,
    \* the main thread: where it is, and the locals of process_batch
    mpc, tickers, retry_count, results,
    \* the tasks submitted to the executor in the current round, by their
    \* position in `tickers`: where each is, and what fetch_stock_data gave it
    pc, data,
    \* BatchProcessor: processed_tickers, failed_tickers, retry_queue, lock
    \* (0: free, otherwise the task holding it)
    processed_tickers, failed_tickers, retry_queue, lock,
    \* what a task keeps while it is inside process_ticker: the locals of
    \* wait_if_needed and handle_rate_limit (now, wake: the instant the sleep
    \* ends) and of fetch_stock_data (ep: the _fmp_get call it is at, ret: what
    \* the last _fmp_get returned, acc: which documents are None so far)
    loc,
    \* history, per process_ticker call: the admissions wait_if_needed (waits)
    \* and handle_rate_limit (hrls) recorded, the GETs sent (net), the
    \* documents answered from the cache (hits)
    stats,
    \* the in-memory cache, and every entry ever written to it or found in the
    \* file at startup (history)
    stock_cache, written,
    \* handle_rate_limit's globals: request_count, window_start, last_request_time
    hrl,
    \* time.time(), in whole time units
    clock,
    \* rate_limiter: requests (the timestamps), lock (0: free, else the holder)
    requests, rl_lock,
    \* history: the instants at which wait_if_needed released a caller, as far
    \* as they lie in the trailing window
    released,
    \* history: the instants at which a GET was sent to the provider, as far as
    \* they lie in the trailing window
    sent,
    \* a call of one of the pure functions: its arguments and what it returned
    call,
    \* the durable cache file
    cache_file,
    \* the main thread in process_batch: the instant at which its
    \* time.sleep(RATE_LIMIT_DELAY) before the next round ends
    sleep_until

batchVars == <<input, batch_size, i, all_results, mpc, tickers, retry_count, results,
               pc, data, processed_tickers, failed_tickers, retry_queue, lock>>

limiterVars == <<clock, requests, rl_lock, released>>

clientVars == <<stock_cache, written, hrl>>

\* the orchestrator's variables but the threads' positions
batchVarsButPc == <<input, batch_size, i, all_results, mpc, tickers, retry_count, results,
                    data, processed_tickers, failed_tickers, retry_queue, lock>>

vars == <<batchVars, loc, stats, limiterVars, clientVars, sent, call, cache_file,
         sleep_until>>

Slots == 1..MaxTickers

TickerNames == <<"A", "B", "C", "D", "E", "F">>

\* the identifier lists handed to fetch_stock_data_batch: distinct identifiers
Inputs == {SubSeq(TickerNames, 1, n) : n \in 0..MaxTickers}

\* the values of batch_size tried: one identifier per batch, and every
\* identifier in one batch
BatchSizes == {1, MaxTickers}

NoData == [rec |-> "unset", cause |-> "none"]

NoLocals ==
    [now |-> 0, wake |-> 0, ep |-> 1, ret |-> NoneDoc,
     acc |-> [req_none |-> FALSE, any_none |-> FALSE, cause |-> "none"]]

NoStats == [waits |-> 0, hrls |-> 0, net |-> 0, hits |-> 0]

\* no pure function is being called
NoCall == [fn |-> "none", args |-> <<>>, ret |-> "pending"]

\* the process starts at least CACHE_EXPIRY after the epoch
StartTime == CACHE_EXPIRY

\* the task is inside process_ticker
Running == {"wait", "rl_sleep", "fetch", "hrl", "hrl_window", "hrl_delay", "get",
            "cool429", "update", "put"}

InProcessTicker == {k \in Slots : pc[k] \in Running}

BatchInit ==
    /\ input \in Inputs
    /\ batch_size \in BatchSizes
    /\ i = 0
    /\ all_results = EmptyDict
    /\ mpc = "for_batch"
    /\ tickers = <<>>
    /\ retry_count = 0
    /\ sleep_until = 0
    /\ results = EmptyDict
    /\ pc = [k \in Slots |-> "idle"]
    /\ data = [k \in Slots |-> NoData]
    /\ processed_tickers = {}
    /\ failed_tickers = {}
    /\ retry_queue = <<>>
    /\ lock = 0
    /\ loc = [k \in Slots |-> NoLocals]
    /\ stats = [k \in Slots |-> NoStats]

\* v.get('timestamp', 0) for the value under `key` in the file: a cache entry
\* carries its timestamp; a record of a results mapping, which
\* fetch_stock_data_batch saves to the same file, carries none
EntryTimestamp(file, key) ==
    IF file.kind = "cache" THEN file.map[key].timestamp ELSE 0

\* load_cache() (lines 42-53) at now: a missing file, a file json.load
\* rejects ("corrupt") and a document whose items() or whose values' get
\* raise ("nonmapping": a list, a mapping of scalars) give {}
load_cache(file, now) ==
    IF file.kind \in {"missing", "corrupt", "nonmapping"}
    THEN EmptyDict
    ELSE LET keep == {key \in DOMAIN file.map :
                         now - EntryTimestamp(file, key) < CACHE_EXPIRY}
         IN  [key \in keep |-> file.map[key]]

\* the module's globals after import, the cache file being `file`
ClientInit(file) ==
    /\ cache_file = file
    /\ stock_cache = load_cache(file, StartTime)
    /\ written = IF file.kind = "cache" THEN file.map ELSE EmptyDict
    /\ hrl = [request_count |-> 0, window_start |-> StartTime, last_request_time |-> 0]
    /\ sent = <<>>

LimiterInit ==
    /\ clock = StartTime
    /\ requests = <<>>
    /\ rl_lock = 0
    /\ released = <<>>

(***************************************************************************)
(* fetch_stock_data_batch (lines 463-484).                                 *)
(***************************************************************************)
\* a slice that starts one identifier late: batch = tickers[i+1:i+batch_size]
NextBatchSkipping ==
    /\ mpc = "for_batch"
    /\ i < Len(input)
    /\ tickers' = SubSeq(input, i + 2, IF i + batch_size < Len(input)
                                        THEN i + batch_size ELSE Len(input))
    /\ results' = EmptyDict
    /\ retry_count' = 0
    /\ mpc' = "while"
    /\ UNCHANGED <<sleep_until, sent, call, input, batch_size, i, all_results, pc, data, processed_tickers,
                   failed_tickers, retry_queue, lock, cache_file, loc, stats, limiterVars, clientVars>>

\* for i in range(0, len(tickers), batch_size): batch = tickers[i:i+batch_size];
\* process_batch(batch) starts with results = {} and retry_count = 0
NextBatch ==
    /\ mpc = "for_batch"
    /\ i < Len(input)
    /\ tickers' = SubSeq(input, i + 1, IF i + batch_size < Len(input)
                                        THEN i + batch_size ELSE Len(input))
    /\ results' = EmptyDict
    /\ retry_count' = 0
    /\ mpc' = "while"
    /\ UNCHANGED <<sleep_until, sent, call, input, batch_size, i, all_results, pc, data, processed_tickers,
                   failed_tickers, retry_queue, lock, cache_file, loc, stats, limiterVars, clientVars>>

\* the range is exhausted: return all_results
ReturnAll ==
    /\ mpc = "for_batch"
    /\ i >= Len(input)
    /\ mpc' = "returned"
    /\ UNCHANGED <<sleep_until, sent, call, input, batch_size, i, all_results, tickers, retry_count, results,
                   pc, data, processed_tickers, failed_tickers, retry_queue, lock, cache_file, loc, stats, limiterVars, clientVars>>

\* process_batch returned: all_results.update(batch_results);
\* save_cache(all_results) writes the result mapping to the cache file
BatchReturned ==
    /\ mpc = "batch_return"
    /\ all_results' = Update(all_results, results)
    /\ cache_file' = [kind |-> "results", map |-> Update(all_results, results)]
    /\ i' = i + batch_size
    /\ mpc' = "for_batch"
    /\ UNCHANGED <<sleep_until, sent, call, input, batch_size, tickers, retry_count, results, pc, data,
                   processed_tickers, failed_tickers, retry_queue, lock, loc,
                   stats, limiterVars, clientVars>>

(***************************************************************************)
(* BatchProcessor.process_batch (lines 418-450).                           *)
(***************************************************************************)
\* while tickers and retry_count < max_retries: submit every ticker
SubmitRound ==
    /\ mpc = "while"
    /\ tickers # <<>> /\ retry_count < max_retries
    /\ pc' = [k \in Slots |-> IF k <= Len(tickers) THEN "queued" ELSE "idle"]
    /\ mpc' = "executor"
    /\ UNCHANGED <<sleep_until, sent, call, input, batch_size, i, all_results, tickers, retry_count, results,
                   data, processed_tickers, failed_tickers, retry_queue, lock, cache_file, loc, stats, limiterVars, clientVars>>

\* the loop condition is false: progress_bar.close(); return results
LeaveWhile ==
    /\ mpc = "while"
    /\ ~(tickers # <<>> /\ retry_count < max_retries)
    /\ mpc' = "batch_return"
    /\ UNCHANGED <<sleep_until, sent, call, input, batch_size, i, all_results, tickers, retry_count, results,
                   pc, data, processed_tickers, failed_tickers, retry_queue, lock, cache_file, loc, stats, limiterVars, clientVars>>

\* the mapping {ticker: data} of the tasks that returned one
RoundResults ==
    LET ok == {k \in 1..Len(tickers) : data[k].rec # NoneVal}
    IN  [t \in {tickers[k] : k \in ok} |->
            data[CHOOSE k \in ok : tickers[k] = t].rec]

\* a with block that is left as soon as one task of the round has finished
ExecutorExitEarly ==
    /\ mpc = "executor"
    /\ \E k \in 1..Len(tickers) : pc[k] = "done"
    /\ results' = Update(results, RoundResults)
    /\ pc' = [k \in Slots |-> IF pc[k] = "done" THEN "idle" ELSE pc[k]]
    /\ data' = [k \in Slots |-> IF pc[k] = "done" THEN NoData ELSE data[k]]
    /\ mpc' = "drain"
    /\ UNCHANGED <<sleep_until, sent, call, input, batch_size, i, all_results, tickers, retry_count,
                   processed_tickers, failed_tickers, retry_queue, lock, cache_file, loc, stats, limiterVars, clientVars>>

\* for future in as_completed(...): results.update(result); the with block is
\* left once every task of the round has finished
ExecutorExit ==
    /\ mpc = "executor"
    /\ \A k \in 1..Len(tickers) : pc[k] = "done"
    /\ results' = Update(results, RoundResults)
    /\ pc' = [k \in Slots |-> "idle"]
    /\ data' = [k \in Slots |-> NoData]
    /\ mpc' = "drain"
    /\ UNCHANGED <<sleep_until, sent, call, input, batch_size, i, all_results, tickers, retry_count,
                   processed_tickers, failed_tickers, retry_queue, lock, cache_file, loc, stats, limiterVars, clientVars>>

\* the queue read into tickers without being emptied
DrainQueueKeeping ==
    /\ mpc = "drain"
    /\ tickers' = retry_queue
    /\ retry_queue' = retry_queue
    /\ IF retry_queue # <<>>
       THEN /\ retry_count' = retry_count + 1
            /\ sleep_until' = clock + RATE_LIMIT_DELAY
            /\ mpc' = "sleep"
       ELSE /\ retry_count' = retry_count
            /\ sleep_until' = sleep_until
            /\ mpc' = "while"
    /\ UNCHANGED <<sent, call, input, batch_size, i, all_results, results, pc, data,
                   processed_tickers, failed_tickers, lock, cache_file, loc, stats, limiterVars, clientVars>>

\* tickers = []; while not retry_queue.empty(): tickers.append(retry_queue.get());
\* if tickers: retry_count += 1, then the cooldown sleep
DrainQueue ==
    /\ mpc = "drain"
    /\ tickers' = retry_queue
    /\ retry_queue' = <<>>
    /\ IF retry_queue # <<>>
       THEN /\ retry_count' = retry_count + 1
            /\ sleep_until' = clock + RATE_LIMIT_DELAY
            /\ mpc' = "sleep"
       ELSE /\ retry_count' = retry_count
            /\ sleep_until' = sleep_until
            /\ mpc' = "while"
    /\ UNCHANGED <<sent, call, input, batch_size, i, all_results, results, pc, data,
                   processed_tickers, failed_tickers, lock, cache_file, loc, stats, limiterVars, clientVars>>

\* time.sleep(RATE_LIMIT_DELAY) returns
CooldownOver ==
    /\ mpc = "sleep"
    /\ mpc' = "while"
    /\ UNCHANGED <<sleep_until, sent, call, input, batch_size, i, all_results, tickers, retry_count, results,
                   pc, data, processed_tickers, failed_tickers, retry_queue, lock, cache_file, loc, stats, limiterVars, clientVars>>

(***************************************************************************)
(* The executor and BatchProcessor.process_ticker (lines 390-416).         *)
(***************************************************************************)
\* an executor that starts a thread for every submitted task
PoolUnbounded == TRUE

\* ThreadPoolExecutor(max_workers=MAX_WORKERS): a thread is free for the task
PoolHasFreeWorker == Cardinality(InProcessTicker) < MAX_WORKERS

\* a pool thread takes the oldest queued task and enters process_ticker
StartTask(k) ==
    /\ mpc = "executor"
    /\ pc[k] = "queued"
    /\ \A j \in 1..(k - 1) : pc[j] # "queued"
    /\ PoolHasFreeWorker
    /\ pc' = [pc EXCEPT ![k] = "wait"]
    /\ loc' = [loc EXCEPT ![k] = NoLocals]
    /\ stats' = [stats EXCEPT ![k] = NoStats]
    /\ UNCHANGED <<sleep_until, sent, call, input, batch_size, i, all_results, mpc, tickers, retry_count,
                   results, data, processed_tickers, failed_tickers, retry_queue,
                   lock, cache_file, limiterVars, clientVars>>

\* rate_limiter.wait_if_needed() returns (its timing is SpecLimiter's subject)
Admitted(k) ==
    /\ pc[k] = "wait"
    /\ pc' = [pc EXCEPT ![k] = "fetch"]
    /\ UNCHANGED <<sleep_until, sent, call, input, batch_size, i, all_results, mpc, tickers, retry_count,
                   results, data, processed_tickers, failed_tickers, retry_queue,
                   lock, cache_file, loc, stats, limiterVars, clientVars>>

\* data = fetch_stock_data(ticker)
Fetched(k) ==
    /\ pc[k] = "fetch"
    /\ \E o \in FetchOutcomes :
          data' = [data EXCEPT ![k] = o]
    /\ pc' = [pc EXCEPT ![k] = "update"]
    /\ UNCHANGED <<sleep_until, sent, call, input, batch_size, i, all_results, mpc, tickers, retry_count,
                   results, processed_tickers, failed_tickers, retry_queue, lock, cache_file, loc, stats, limiterVars, clientVars>>

\* with self.lock: if data: processed_tickers.add(ticker); return {ticker: data}
RecordSuccess(k) ==
    /\ pc[k] = "update"
    /\ lock = 0
    /\ data[k].rec # NoneVal
    /\ processed_tickers' = processed_tickers \cup {tickers[k]}
    /\ pc' = [pc EXCEPT ![k] = "done"]
    /\ UNCHANGED <<sleep_until, sent, call, input, batch_size, i, all_results, mpc, tickers, retry_count,
                   results, data, failed_tickers, retry_queue, lock, cache_file, loc, stats, limiterVars, clientVars>>

\* the failure recorded in a critical section of its own, left before the put
RecordFailureReleasing(k) ==
    /\ pc[k] = "update"
    /\ lock = 0
    /\ data[k].rec = NoneVal
    /\ lock' = 0
    /\ failed_tickers' = failed_tickers \cup {tickers[k]}
    /\ pc' = [pc EXCEPT ![k] = "put"]
    /\ UNCHANGED <<sleep_until, sent, call, input, batch_size, i, all_results, mpc, tickers, retry_count,
                   results, data, processed_tickers, retry_queue,
                   cache_file, loc, stats, limiterVars, clientVars>>

\* with self.lock: else: failed_tickers.add(ticker), and on to retry_queue.put
RecordFailure(k) ==
    /\ pc[k] = "update"
    /\ lock = 0
    /\ data[k].rec = NoneVal
    /\ lock' = k
    /\ failed_tickers' = failed_tickers \cup {tickers[k]}
    /\ pc' = [pc EXCEPT ![k] = "put"]
    /\ UNCHANGED <<sleep_until, sent, call, input, batch_size, i, all_results, mpc, tickers, retry_count,
                   results, data, processed_tickers, retry_queue,
                   cache_file, loc, stats, limiterVars, clientVars>>

\* Queue(maxsize=MAX_QUEUE_SIZE).put(ticker) blocks while the queue is full
QueueHasRoom == Len(retry_queue) < MAX_QUEUE_SIZE

\* a return that leaves the identifier out of the retry queue
PutRetrySkipped(k) ==
    /\ pc[k] = "put"
    /\ lock = k
    /\ lock' = 0
    /\ pc' = [pc EXCEPT ![k] = "done"]
    /\ UNCHANGED <<sleep_until, sent, call, input, batch_size, i, all_results, mpc, tickers, retry_count,
                   results, data, processed_tickers, failed_tickers, retry_queue,
                   cache_file, loc, stats, limiterVars, clientVars>>

\* self.retry_queue.put(ticker); return None, leaving the with block
PutRetry(k) ==
    /\ pc[k] = "put"
    /\ lock = k
    /\ QueueHasRoom
    /\ retry_queue' = Append(retry_queue, tickers[k])
    /\ lock' = 0
    /\ pc' = [pc EXCEPT ![k] = "done"]
    /\ UNCHANGED <<sleep_until, sent, call, input, batch_size, i, all_results, mpc, tickers, retry_count,
                   results, data, processed_tickers, failed_tickers,
                   cache_file, loc, stats, limiterVars, clientVars>>

Init ==
    /\ call = NoCall
    /\ BatchInit
    /\ LimiterInit
    /\ ClientInit([kind |-> "missing", map |-> EmptyDict])

Next ==
    \/ NextBatch
    \/ ReturnAll
    \/ BatchReturned
    \/ SubmitRound
    \/ LeaveWhile
    \/ ExecutorExit
    \/ DrainQueue
    \/ CooldownOver
    \/ \E k \in Slots : StartTask(k)
    \/ \E k \in Slots : Admitted(k)
    \/ \E k \in Slots : Fetched(k)
    \/ \E k \in Slots : RecordSuccess(k)
    \/ \E k \in Slots : RecordFailure(k)
    \/ \E k \in Slots : PutRetry(k)

Spec == Init /\ [][Next]_vars

(***************************************************************************)
(* RateLimiter.wait_if_needed against the clock.  The whole method runs    *)
(* under self.lock; the only place where time passes inside it is          *)
(* time.sleep, so the method is two steps when it sleeps and one when it   *)
(* does not.  `next` is where the caller continues, `count` whether the    *)
(* caller is a process_ticker call that keeps its history.                 *)
(***************************************************************************)
\* time passes; the history forgets what left the trailing window
Tick ==
    /\ clock < MaxTime
    /\ clock' = clock + 1
    /\ released' = SelectSeq(released, LAMBDA t : clock' - t < WINDOW_SIZE)
    /\ sent' = SelectSeq(sent, LAMBDA t : clock' - t < WINDOW_SIZE)
    /\ UNCHANGED <<sleep_until, call, batchVars, loc, stats, requests, rl_lock, clientVars, cache_file>>

\* self.requests = [t for t in self.requests if now - t < self.window_size]
RemoveOld(reqs, now) == SelectSeq(reqs, LAMBDA t : now - t < WINDOW_SIZE)

\* len(self.requests) >= self.max_requests
WindowFull(reqs) == Len(reqs) >= MAX_REQUESTS_PER_WINDOW

\* the same with the sign of the elapsed time slipped
SleepTimeLate(reqs, now) == WINDOW_SIZE + (now - reqs[1])

\* sleep_time = self.window_size - (now - self.requests[0])
SleepTime(reqs, now) == WINDOW_SIZE - (now - reqs[1])

\* the window has room: the call records `now` and returns at once
WaitAdmit(k, next, count) ==
    /\ pc[k] = "wait"
    /\ rl_lock = 0
    /\ LET kept == RemoveOld(requests, clock)
       IN  /\ ~WindowFull(kept)
           /\ requests' = Append(kept, clock)
    /\ released' = Append(released, clock)
    /\ pc' = [pc EXCEPT ![k] = next]
    /\ stats' = [stats EXCEPT ![k].waits = IF count THEN @ + 1 ELSE @]
    /\ UNCHANGED <<sleep_until, sent, call, input, batch_size, i, all_results, mpc, tickers, retry_count,
                   results, data, processed_tickers, failed_tickers, retry_queue,
                   lock, loc, clock, rl_lock, clientVars, cache_file>>

\* the window is full: the call keeps `now` and sleeps, holding the lock
WaitBlock(k) ==
    /\ pc[k] = "wait"
    /\ rl_lock = 0
    /\ LET kept == RemoveOld(requests, clock)
           sleep_time == SleepTime(kept, clock)
       IN  /\ WindowFull(kept)
           /\ requests' = kept
           /\ loc' = [loc EXCEPT ![k].now = clock,
                                 ![k].wake = IF sleep_time > 0
                                             THEN clock + sleep_time
                                             ELSE clock]
    /\ rl_lock' = k
    /\ pc' = [pc EXCEPT ![k] = "rl_sleep"]
    /\ UNCHANGED <<sleep_until, sent, call, input, batch_size, i, all_results, mpc, tickers, retry_count,
                   results, data, processed_tickers, failed_tickers, retry_queue,
                   lock, stats, clock, released, clientVars, cache_file>>

\* a return from the sleep that keeps the limiter's lock
WaitWakeHolding(k, next, count) ==
    /\ pc[k] = "rl_sleep"
    /\ clock >= loc[k].wake
    /\ requests' = Append(Tail(requests), loc[k].now)
    /\ released' = Append(released, clock)
    /\ rl_lock' = k
    /\ loc' = [loc EXCEPT ![k].now = 0, ![k].wake = 0]
    /\ pc' = [pc EXCEPT ![k] = next]
    /\ stats' = [stats EXCEPT ![k].waits = IF count THEN @ + 1 ELSE @]
    /\ UNCHANGED <<sleep_until, sent, call, input, batch_size, i, all_results, mpc, tickers, retry_count,
                   results, data, processed_tickers, failed_tickers, retry_queue,
                   lock, clock, clientVars, cache_file>>

\* the sleep is over: drop the oldest timestamp, record the `now` read before
\* the sleep, release the lock and return
WaitWake(k, next, count) ==
    /\ pc[k] = "rl_sleep"
    /\ clock >= loc[k].wake
    /\ requests' = Append(Tail(requests), loc[k].now)
    /\ released' = Append(released, clock)
    /\ rl_lock' = 0
    /\ loc' = [loc EXCEPT ![k].now = 0, ![k].wake = 0]
    /\ pc' = [pc EXCEPT ![k] = next]
    /\ stats' = [stats EXCEPT ![k].waits = IF count THEN @ + 1 ELSE @]
    /\ UNCHANGED <<sleep_until, sent, call, input, batch_size, i, all_results, mpc, tickers, retry_count,
                   results, data, processed_tickers, failed_tickers, retry_queue,
                   lock, clock, clientVars, cache_file>>

\* the threads of the pool, each calling wait_if_needed again and again
Callers == 1..MAX_WORKERS

InitLimiter ==
    /\ call = NoCall
    /\ batch_size = 1
    /\ input = <<>>
    /\ i = 0
    /\ all_results = EmptyDict
    /\ mpc = "for_batch"
    /\ tickers = <<>>
    /\ retry_count = 0
    /\ sleep_until = 0
    /\ results = EmptyDict
    /\ pc = [k \in Slots |-> IF k \in Callers THEN "wait" ELSE "idle"]
    /\ data = [k \in Slots |-> NoData]
    /\ processed_tickers = {}
    /\ failed_tickers = {}
    /\ retry_queue = <<>>
    /\ lock = 0
    /\ loc = [k \in Slots |-> NoLocals]
    /\ stats = [k \in Slots |-> NoStats]
    /\ LimiterInit
    /\ ClientInit([kind |-> "missing", map |-> EmptyDict])

NextLimiter ==
    \/ Tick
    \/ \E k \in Callers : WaitAdmit(k, "wait", FALSE)
    \/ \E k \in Callers : WaitBlock(k)
    \/ \E k \in Callers : WaitWake(k, "wait", FALSE)

SpecLimiter == InitLimiter /\ [][NextLimiter]_vars

(***************************************************************************)
(* process_ticker step by step against the clock and the cache: the        *)
(* orchestrator runs one identifier per batch, so that one thread at a     *)
(* time is inside fetch_stock_data, and the task's two abstract steps      *)
(* (Admitted, Fetched) are replaced by wait_if_needed and the eight        *)
(* _fmp_get calls.                                                         *)
(***************************************************************************)
\* key = f"{endpoint}|{json.dumps(params, sort_keys=True)}", the endpoint
\* being f"{base}/{ticker}" and params holding the api key alone
CacheKey(base, ticker) == <<base, ticker>>

\* an entry that never expires
CacheEntryForever(entry, now) == TRUE

\* time.time() - cache_entry['timestamp'] < CACHE_EXPIRY
CacheEntryFresh(entry, now) == now - entry.timestamp < CACHE_EXPIRY

\* a cache entry without its 'data' member
NoDataField == [kind |-> "absent", recs |-> <<>>]

\* cache_entry['data'] can be read
HasData(entry) == entry.data # NoDataField

\* the endpoint the task is at, and its cache key
EndpointOf(k) == Endpoints[loc[k].ep]

KeyOf(k) == CacheKey(EndpointOf(k).base, tickers[k])

\* the jitter random.uniform(0, 1) adds to REQUEST_DELAY, in time units
Jitters == {0, 1}

TaskAdmit(k) == WaitAdmit(k, "fetch", TRUE)

TaskWake(k) == WaitWake(k, "fetch", TRUE)

\* _fmp_get returns `doc`: fetch_stock_data keeps it and goes on to its next call
Returns(k, doc, kind) ==
    loc' = [loc EXCEPT ![k].ret = doc,
                       ![k].acc = FetchStep(@, EndpointOf(k),
                                            [none |-> doc = NoneDoc, kind |-> kind]),
                       ![k].ep = @ + 1,
                       ![k].now = 0,
                       ![k].wake = 0]

\* lines 205-209: the key is in stock_cache and its entry is fresh
CacheHit(k) ==
    /\ pc[k] = "fetch"
    /\ loc[k].ep <= NumEndpoints
    /\ KeyOf(k) \in DOMAIN stock_cache
    /\ CacheEntryFresh(stock_cache[KeyOf(k)], clock)
    /\ HasData(stock_cache[KeyOf(k)])
    /\ Returns(k, stock_cache[KeyOf(k)].data, "none")
    /\ stats' = [stats EXCEPT ![k].hits = @ + 1]
    /\ UNCHANGED <<sleep_until, sent, call, batchVars, limiterVars, clientVars, cache_file>>

\* no entry, or an expired one: on to handle_rate_limit
CacheMiss(k) ==
    /\ pc[k] = "fetch"
    /\ loc[k].ep <= NumEndpoints
    /\ ~(/\ KeyOf(k) \in DOMAIN stock_cache
         /\ CacheEntryFresh(stock_cache[KeyOf(k)], clock))
    /\ pc' = [pc EXCEPT ![k] = "hrl"]
    /\ UNCHANGED <<sleep_until, sent, call, input, batch_size, i, all_results, mpc, tickers, retry_count,
                   results, data, processed_tickers, failed_tickers, retry_queue,
                   lock, loc, stats, limiterVars, clientVars, cache_file>>

\* handle_rate_limit, lines 177-190: the window reset, then either the sleep
\* to the end of the window or the sleep of REQUEST_DELAY + jitter
HrlEnter(k) ==
    /\ pc[k] = "hrl"
    /\ LET now == clock
           h == IF now - hrl.window_start >= WINDOW_SIZE
                THEN [hrl EXCEPT !.window_start = now, !.request_count = 0]
                ELSE hrl
           sleep == WINDOW_SIZE - (now - h.window_start)
       IN  /\ hrl' = h
           /\ IF h.request_count >= MAX_REQUESTS_PER_WINDOW /\ sleep > 0
              THEN /\ pc' = [pc EXCEPT ![k] = "hrl_window"]
                   /\ loc' = [loc EXCEPT ![k].now = now, ![k].wake = clock + sleep]
              ELSE /\ pc' = [pc EXCEPT ![k] = "hrl_delay"]
                   /\ \E jitter \in Jitters :
                        loc' = [loc EXCEPT ![k].now = now,
                                           ![k].wake = clock + REQUEST_DELAY + jitter]
    /\ UNCHANGED <<sleep_until, sent, call, input, batch_size, i, all_results, mpc, tickers, retry_count,
                   results, data, processed_tickers, failed_tickers, retry_queue,
                   lock, stats, limiterVars, stock_cache, written, cache_file>>

\* lines 186-188: the window sleep is over
HrlWindowSlept(k) ==
    /\ pc[k] = "hrl_window"
    /\ clock >= loc[k].wake
    /\ hrl' = [hrl EXCEPT !.window_start = clock, !.request_count = 0]
    /\ pc' = [pc EXCEPT ![k] = "hrl_delay"]
    /\ \E jitter \in Jitters :
         loc' = [loc EXCEPT ![k].wake = clock + REQUEST_DELAY + jitter]
    /\ UNCHANGED <<sleep_until, sent, call, input, batch_size, i, all_results, mpc, tickers, retry_count,
                   results, data, processed_tickers, failed_tickers, retry_queue,
                   lock, stats, limiterVars, stock_cache, written, cache_file>>

\* lines 193-195: the delay is over; the request is counted and the GET follows
HrlDelaySlept(k) ==
    /\ pc[k] = "hrl_delay"
    /\ clock >= loc[k].wake
    /\ hrl' = [hrl EXCEPT !.last_request_time = loc[k].now,
                          !.request_count = @ + 1]
    /\ stats' = [stats EXCEPT ![k].hrls = @ + 1]
    /\ pc' = [pc EXCEPT ![k] = "get"]
    /\ UNCHANGED <<sleep_until, sent, call, input, batch_size, i, all_results, mpc, tickers, retry_count,
                   results, data, processed_tickers, failed_tickers, retry_queue,
                   lock, loc, limiterVars, stock_cache, written, cache_file>>

\* stock_cache[key] = {'data': data, 'timestamp': time.time()}
Stored(cache, key, doc, now) ==
    Update(cache, key :> [data |-> doc, timestamp |-> now])

\* lines 213-245: session.get and what _fmp_get makes of the answer
Respond(k) ==
    /\ pc[k] = "get"
    /\ stats' = [stats EXCEPT ![k].net = @ + 1]
    /\ sent' = Append(sent, clock)
    /\ \E resp \in Responses(EndpointOf(k).base) :
         LET ans == FmpGetAnswer(EndpointOf(k).base, resp)
         IN  /\ IF ans.cooldown
                THEN /\ pc' = [pc EXCEPT ![k] = "cool429"]
                     /\ loc' = [loc EXCEPT ![k].wake = clock + RATE_LIMIT_DELAY]
                ELSE /\ pc' = [pc EXCEPT ![k] = "fetch"]
                     /\ Returns(k, ans.ret, FailureKind(EndpointOf(k).base, resp))
             /\ IF ans.store
                THEN /\ stock_cache' = Stored(stock_cache, KeyOf(k), ans.ret, clock)
                     /\ written' = Stored(written, KeyOf(k), ans.ret, clock)
                     /\ cache_file' = [kind |-> "cache", map |-> stock_cache']
                ELSE UNCHANGED <<stock_cache, written, cache_file>>
    /\ UNCHANGED <<sleep_until, call, input, batch_size, i, all_results, mpc, tickers, retry_count,
                   results, data, processed_tickers, failed_tickers, retry_queue,
                   lock, limiterVars, hrl>>

\* lines 219-222: time.sleep(RATE_LIMIT_DELAY) is over; return None
CooldownSlept(k) ==
    /\ pc[k] = "cool429"
    /\ clock >= loc[k].wake
    /\ pc' = [pc EXCEPT ![k] = "fetch"]
    /\ Returns(k, NoneDoc, "rate_limited")
    /\ UNCHANGED <<sleep_until, sent, call, input, batch_size, i, all_results, mpc, tickers, retry_count,
                   results, data, processed_tickers, failed_tickers, retry_queue,
                   lock, stats, limiterVars, clientVars, cache_file>>

\* lines 278-354: the record is built from the eight documents, or the
\* subscript of a None raises and the except clause returns None
FetchReturn(k) ==
    /\ pc[k] = "fetch"
    /\ loc[k].ep = NumEndpoints + 1
    /\ data' = [data EXCEPT ![k] =
                   [rec |-> FetchRecord(loc[k].acc.req_none, loc[k].acc.any_none),
                    cause |-> ErrorClass(loc[k].acc.cause)]]
    /\ pc' = [pc EXCEPT ![k] = "update"]
    /\ UNCHANGED <<sleep_until, sent, call, input, batch_size, i, all_results, mpc, tickers, retry_count,
                   results, processed_tickers, failed_tickers, retry_queue,
                   lock, loc, stats, limiterVars, clientVars, cache_file>>

\* a valid document of the endpoint
ValidDoc(base) == ListDoc(<<RequiredFields(base) \cup {"date"}>>)

\* a cache file holding, for the endpoints `bases` of `ticker`, entries written at ts
CacheFileOf(bases, ticker, ts) ==
    [kind |-> "cache",
     map  |-> [key \in {CacheKey(b, ticker) : b \in bases} |->
                  [data |-> ValidDoc(key[1]), timestamp |-> ts]]]

AllBases == {Endpoints[n].base : n \in 1..NumEndpoints}

\* the instants at which the entries of the file were written, before StartTime
FileStamps == {0, 2}

\* the cache file the process finds: none, an unreadable one, the results
\* mapping a former run left there, or a cache of a former run
CacheFiles ==
    { [kind |-> "missing", map |-> EmptyDict],
      [kind |-> "corrupt", map |-> EmptyDict],
      [kind |-> "results", map |-> [t \in {"A"} |-> "full"]] }
    \cup {CacheFileOf(bases, "A", ts) :
             bases \in {AllBases, AllBases \ {"profile"}}, ts \in FileStamps}

\* the same identifier, up to three times
FetchInputs == {[n \in 1..len |-> "A"] : len \in 1..3}

InitFetch ==
    /\ call = NoCall
    /\ input \in FetchInputs
    /\ batch_size = 1
    /\ i = 0
    /\ all_results = EmptyDict
    /\ mpc = "for_batch"
    /\ tickers = <<>>
    /\ retry_count = 0
    /\ sleep_until = 0
    /\ results = EmptyDict
    /\ pc = [k \in Slots |-> "idle"]
    /\ data = [k \in Slots |-> NoData]
    /\ processed_tickers = {}
    /\ failed_tickers = {}
    /\ retry_queue = <<>>
    /\ lock = 0
    /\ loc = [k \in Slots |-> NoLocals]
    /\ stats = [k \in Slots |-> NoStats]
    /\ LimiterInit
    /\ \E file \in CacheFiles : ClientInit(file)

\* without the cooldown between retry rounds: a run ends at its first round
\* that leaves a failure
NextFetch ==
    \/ Tick
    \/ NextBatch
    \/ ReturnAll
    \/ BatchReturned
    \/ SubmitRound
    \/ LeaveWhile
    \/ ExecutorExit
    \/ DrainQueue
    \/ \E k \in Slots : StartTask(k)
    \/ \E k \in Slots : TaskAdmit(k)
    \/ \E k \in Slots : WaitBlock(k)
    \/ \E k \in Slots : TaskWake(k)
    \/ \E k \in Slots : CacheHit(k)
    \/ \E k \in Slots : CacheMiss(k)
    \/ \E k \in Slots : HrlEnter(k)
    \/ \E k \in Slots : HrlWindowSlept(k)
    \/ \E k \in Slots : HrlDelaySlept(k)
    \/ \E k \in Slots : Respond(k)
    \/ \E k \in Slots : CooldownSlept(k)
    \/ \E k \in Slots : FetchReturn(k)
    \/ \E k \in Slots : RecordSuccess(k)
    \/ \E k \in Slots : RecordFailure(k)
    \/ \E k \in Slots : PutRetry(k)

SpecFetch == InitFetch /\ [][NextFetch]_vars

(***************************************************************************)
(* The cache store under one thread at a time: the import of the module    *)
(* (stock_cache = load_cache()), clear_cache, and the run of SpecFetch     *)
(* with a disk that may fail when _fmp_get persists the cache.             *)
(***************************************************************************)
\* line 209 on a fresh entry without 'data': the KeyError leaves _fmp_get
\* (the cache check is outside its try) and fetch_stock_data catches it
\* (lines 352-354) and returns None
CacheKeyError(k) ==
    /\ pc[k] = "fetch"
    /\ loc[k].ep <= NumEndpoints
    /\ KeyOf(k) \in DOMAIN stock_cache
    /\ CacheEntryFresh(stock_cache[KeyOf(k)], clock)
    /\ ~HasData(stock_cache[KeyOf(k)])
    /\ data' = [data EXCEPT ![k] = [rec |-> NoneVal, cause |-> "none"]]
    /\ pc' = [pc EXCEPT ![k] = "update"]
    /\ UNCHANGED <<sleep_until, sent, call, input, batch_size, i, all_results, mpc, tickers, retry_count,
                   results, processed_tickers, failed_tickers, retry_queue,
                   lock, loc, stats, limiterVars, clientVars, cache_file>>

\* what the disk does to one save_cache: the write succeeds; open raises;
\* json.dump raises after open has truncated the file; the cache directory
\* is gone and os.makedirs raises
DiskOutcomes == {"ok", "open_fails", "dump_fails", "makedirs_fails"}

\* save_cache(cache_data) (lines 55-61) on `file`: the file afterwards, and
\* whether an exception leaves the function.  ensure_cache_dir() is called
\* before the try; what open and json.dump raise is caught and logged
save_cache(file, cache_data, disk) ==
    CASE disk = "ok" ->
            [file |-> [kind |-> "cache", map |-> cache_data], raises |-> FALSE]
      [] disk = "open_fails" ->
            [file |-> file, raises |-> FALSE]
      [] disk = "dump_fails" ->
            [file |-> [kind |-> "corrupt", map |-> EmptyDict], raises |-> FALSE]
      [] OTHER ->
            [file |-> [kind |-> "missing", map |-> EmptyDict], raises |-> TRUE]

\* lines 213-255 with a disk that may fail: the entry is put in stock_cache,
\* then save_cache runs; what it raises is caught at line 253 and _fmp_get
\* returns None
RespondStore(k) ==
    /\ pc[k] = "get"
    /\ stats' = [stats EXCEPT ![k].net = @ + 1]
    /\ sent' = Append(sent, clock)
    /\ \E resp \in Responses(EndpointOf(k).base), disk \in DiskOutcomes :
         LET ans == FmpGetAnswer(EndpointOf(k).base, resp)
             saved == save_cache(cache_file, Stored(stock_cache, KeyOf(k), ans.ret, clock), disk)
         IN  IF ans.cooldown
             THEN /\ pc' = [pc EXCEPT ![k] = "cool429"]
                  /\ loc' = [loc EXCEPT ![k].wake = clock + RATE_LIMIT_DELAY]
                  /\ UNCHANGED <<stock_cache, written, cache_file>>
             ELSE IF ans.store
             THEN /\ pc' = [pc EXCEPT ![k] = "fetch"]
                  /\ stock_cache' = Stored(stock_cache, KeyOf(k), ans.ret, clock)
                  /\ written' = Stored(written, KeyOf(k), ans.ret, clock)
                  /\ cache_file' = saved.file
                  /\ IF saved.raises
                     THEN Returns(k, NoneDoc, "storage")
                     ELSE Returns(k, ans.ret, "none")
             ELSE /\ pc' = [pc EXCEPT ![k] = "fetch"]
                  /\ Returns(k, ans.ret, FailureKind(EndpointOf(k).base, resp))
                  /\ UNCHANGED <<stock_cache, written, cache_file>>
    /\ UNCHANGED <<sleep_until, call, input, batch_size, i, all_results, mpc, tickers, retry_count,
                   results, data, processed_tickers, failed_tickers, retry_queue,
                   lock, limiterVars, hrl>>

\* line 64, at import: stock_cache = load_cache()
LoadCache ==
    /\ mpc = "import"
    /\ stock_cache' = load_cache(cache_file, clock)
    /\ written' = IF cache_file.kind = "cache" THEN cache_file.map ELSE EmptyDict
    /\ call' = [fn |-> "load_cache", args |-> <<cache_file>>, ret |-> NoneVal]
    /\ mpc' = "for_batch"
    /\ UNCHANGED <<sleep_until, sent, input, batch_size, i, all_results, tickers, retry_count, results,
                   pc, data, processed_tickers, failed_tickers, retry_queue, lock,
                   loc, stats, limiterVars, hrl, cache_file>>

\* a clear_cache that leaves the file where it is
ClearCacheKeepingFile ==
    /\ mpc \in {"for_batch", "returned"}
    /\ stock_cache' = EmptyDict
    /\ call' = [fn |-> "clear_cache", args |-> <<>>, ret |-> NoneVal]
    /\ UNCHANGED <<sleep_until, sent, batchVars, loc, stats, limiterVars, written, hrl, cache_file>>

\* clear_cache() (lines 671-677), called by the main thread outside
\* process_batch: stock_cache = {}; os.remove(CACHE_FILE) if it exists
ClearCache ==
    /\ mpc \in {"for_batch", "returned"}
    /\ stock_cache' = EmptyDict
    /\ cache_file' = [kind |-> "missing", map |-> EmptyDict]
    /\ call' = [fn |-> "clear_cache", args |-> <<>>, ret |-> NoneVal]
    /\ UNCHANGED <<sleep_until, sent, batchVars, loc, stats, limiterVars, written, hrl>>

\* the cache file the process finds: as in CacheFiles, and a JSON document
\* that is no mapping of entries, and a cache whose entry has lost its data
StorageFiles ==
    { [kind |-> "missing", map |-> EmptyDict],
      [kind |-> "corrupt", map |-> EmptyDict],
      [kind |-> "nonmapping", map |-> EmptyDict],
      [kind |-> "results", map |-> [t \in {"A"} |-> "full"]],
      CacheFileOf(AllBases, "A", 2),
      CacheFileOf({"profile"}, "A", 0),
      [kind |-> "cache",
       map  |-> [key \in {CacheKey("profile", "A")} |->
                    [data |-> NoDataField, timestamp |-> 2]]] }

\* the same identifier once, or three times, one batch each
StoreInputs == {[n \in 1..len |-> "A"] : len \in {1, 3}}

InitStore ==
    /\ call = NoCall
    /\ input \in StoreInputs
    /\ batch_size = 1
    /\ i = 0
    /\ all_results = EmptyDict
    /\ mpc = "import"
    /\ tickers = <<>>
    /\ retry_count = 0
    /\ sleep_until = 0
    /\ results = EmptyDict
    /\ pc = [k \in Slots |-> "idle"]
    /\ data = [k \in Slots |-> NoData]
    /\ processed_tickers = {}
    /\ failed_tickers = {}
    /\ retry_queue = <<>>
    /\ lock = 0
    /\ loc = [k \in Slots |-> NoLocals]
    /\ stats = [k \in Slots |-> NoStats]
    /\ LimiterInit
    /\ cache_file \in StorageFiles
    /\ stock_cache = EmptyDict
    /\ written = EmptyDict
    /\ hrl = [request_count |-> 0, window_start |-> StartTime, last_request_time |-> 0]
    /\ sent = <<>>

NextStore ==
    \/ Tick
    \/ LoadCache
    \/ ClearCache
    \/ NextBatch
    \/ ReturnAll
    \/ BatchReturned
    \/ SubmitRound
    \/ LeaveWhile
    \/ ExecutorExit
    \/ DrainQueue
    \/ \E k \in Slots : StartTask(k)
    \/ \E k \in Slots : TaskAdmit(k)
    \/ \E k \in Slots : WaitBlock(k)
    \/ \E k \in Slots : TaskWake(k)
    \/ \E k \in Slots : CacheHit(k)
    \/ \E k \in Slots : CacheKeyError(k)
    \/ \E k \in Slots : CacheMiss(k)
    \/ \E k \in Slots : HrlEnter(k)
    \/ \E k \in Slots : HrlWindowSlept(k)
    \/ \E k \in Slots : HrlDelaySlept(k)
    \/ \E k \in Slots : RespondStore(k)
    \/ \E k \in Slots : CooldownSlept(k)
    \/ \E k \in Slots : FetchReturn(k)
    \/ \E k \in Slots : RecordSuccess(k)
    \/ \E k \in Slots : RecordFailure(k)
    \/ \E k \in Slots : PutRetry(k)

SpecStore == InitStore /\ [][NextStore]_vars

(***************************************************************************)
(* The two limiters under the threads of the pool: every thread runs       *)
(* process_ticker after process_ticker on a cold cache, that is            *)
(* wait_if_needed once and then handle_rate_limit and the GET for one      *)
(* _fmp_get after the other.  What the provider answers is left out: the   *)
(* thread goes on to its next _fmp_get or to its next identifier.          *)
(***************************************************************************)
\* session.get(url, params=params) is sent; the thread's next call
\* is another _fmp_get of this identifier or process_ticker of the next one
Send(k) ==
    /\ pc[k] = "get"
    /\ sent' = Append(sent, clock)
    /\ \E next \in {"hrl", "wait"} : pc' = [pc EXCEPT ![k] = next]
    /\ stats' = [stats EXCEPT ![k] = NoStats]
    /\ UNCHANGED <<sleep_until, call, input, batch_size, i, all_results, mpc, tickers, retry_count,
                   results, data, processed_tickers, failed_tickers, retry_queue,
                   lock, loc, limiterVars, clientVars, cache_file>>

PoolAdmit(k) == WaitAdmit(k, "hrl", FALSE)

PoolWake(k) == WaitWake(k, "hrl", FALSE)

\* two threads of the pool are inside process_ticker at a time; the third
\* is between two tasks
PoolThreads == {1, 2}

InitAdmit ==
    /\ call = NoCall
    /\ batch_size = 1
    /\ input = <<>>
    /\ i = 0
    /\ all_results = EmptyDict
    /\ mpc = "for_batch"
    /\ tickers = <<>>
    /\ retry_count = 0
    /\ sleep_until = 0
    /\ results = EmptyDict
    /\ pc = [k \in Slots |-> IF k \in PoolThreads THEN "wait" ELSE "idle"]
    /\ data = [k \in Slots |-> NoData]
    /\ processed_tickers = {}
    /\ failed_tickers = {}
    /\ retry_queue = <<>>
    /\ lock = 0
    /\ loc = [k \in Slots |-> NoLocals]
    /\ stats = [k \in Slots |-> NoStats]
    /\ LimiterInit
    /\ ClientInit([kind |-> "missing", map |-> EmptyDict])

NextAdmit ==
    \/ Tick
    \/ \E k \in PoolThreads : PoolAdmit(k)
    \/ \E k \in PoolThreads : WaitBlock(k)
    \/ \E k \in PoolThreads : PoolWake(k)
    \/ \E k \in PoolThreads : HrlEnter(k)
    \/ \E k \in PoolThreads : HrlWindowSlept(k)
    \/ \E k \in PoolThreads : HrlDelaySlept(k)
    \/ \E k \in PoolThreads : Send(k)

SpecAdmit == InitAdmit /\ [][NextAdmit]_vars

(***************************************************************************)
(* The provider's rate-limit answer under the threads of the pool: two     *)
(* threads are inside fetch_stock_data on a cold cache and issue one       *)
(* _fmp_get after the other, that is handle_rate_limit, the GET, and the   *)
(* RATE_LIMIT_DELAY sleep when the answer is a 429.  The cache is left     *)
(* out: no answer is stored.                                               *)
(***************************************************************************)
\* lines 213-222: session.get is sent and answered; on a 429 the thread
\* sleeps RATE_LIMIT_DELAY, on any other answer _fmp_get returns and the
\* thread is at its next _fmp_get
SendAnswered(k) ==
    /\ pc[k] = "get"
    /\ sent' = Append(sent, clock)
    /\ stats' = [stats EXCEPT ![k] = NoStats]
    /\ \E resp \in Responses("balance-sheet-statement") :
         LET ans == FmpGetAnswer("balance-sheet-statement", resp)
         IN  IF ans.cooldown
             THEN /\ pc' = [pc EXCEPT ![k] = "cool429"]
                  /\ loc' = [loc EXCEPT ![k].wake = clock + RATE_LIMIT_DELAY]
             ELSE /\ pc' = [pc EXCEPT ![k] = "hrl"]
                  /\ loc' = [loc EXCEPT ![k].ret = ans.ret, ![k].now = 0, ![k].wake = 0]
    /\ UNCHANGED <<sleep_until, call, input, batch_size, i, all_results, mpc, tickers, retry_count,
                   results, data, processed_tickers, failed_tickers, retry_queue,
                   lock, limiterVars, clientVars, cache_file>>

\* lines 219-222: time.sleep(RATE_LIMIT_DELAY) is over; _fmp_get returns None
\* and the thread is at its next _fmp_get
PoolCooled(k) ==
    /\ pc[k] = "cool429"
    /\ clock >= loc[k].wake
    /\ pc' = [pc EXCEPT ![k] = "hrl"]
    /\ loc' = [loc EXCEPT ![k].ret = NoneDoc, ![k].now = 0, ![k].wake = 0]
    /\ UNCHANGED <<sleep_until, sent, call, input, batch_size, i, all_results, mpc, tickers, retry_count,
                   results, data, processed_tickers, failed_tickers, retry_queue,
                   lock, stats, limiterVars, clientVars, cache_file>>

InitCooldown ==
    /\ call = NoCall
    /\ batch_size = 1
    /\ input = <<>>
    /\ i = 0
    /\ all_results = EmptyDict
    /\ mpc = "for_batch"
    /\ tickers = <<>>
    /\ retry_count = 0
    /\ sleep_until = 0
    /\ results = EmptyDict
    /\ pc = [k \in Slots |-> IF k \in PoolThreads THEN "hrl" ELSE "idle"]
    /\ data = [k \in Slots |-> NoData]
    /\ processed_tickers = {}
    /\ failed_tickers = {}
    /\ retry_queue = <<>>
    /\ lock = 0
    /\ loc = [k \in Slots |-> NoLocals]
    /\ stats = [k \in Slots |-> NoStats]
    /\ LimiterInit
    /\ ClientInit([kind |-> "missing", map |-> EmptyDict])

NextCooldown ==
    \/ Tick
    \/ \E k \in PoolThreads : HrlEnter(k)
    \/ \E k \in PoolThreads : HrlWindowSlept(k)
    \/ \E k \in PoolThreads : HrlDelaySlept(k)
    \/ \E k \in PoolThreads : SendAnswered(k)
    \/ \E k \in PoolThreads : PoolCooled(k)

SpecCooldown == InitCooldown /\ [][NextCooldown]_vars

(***************************************************************************)
(* The tail of _fmp_get (lines 238-245) in two pool threads: the entry is  *)
(* put into stock_cache and save_cache opens the cache file for writing,   *)
(* dumps the mapping and closes the file.  No lock is taken, so the steps  *)
(* of the two threads interleave.  A put changes the mapping another       *)
(* thread's json.dump is iterating over or has just serialised: that dump  *)
(* ends in a RuntimeError that save_cache logs, leaving part of the text,  *)
(* or writes the text of the mapping as it was over whatever the file      *)
(* holds by then.  An open truncates the file another thread is writing.   *)
(* What the close of such a dump leaves in the file depends on the timing: *)
(* the text of the whole mapping or unparsable text.                       *)
(***************************************************************************)
\* an empty or partly written file: json.load raises on it
TornFile == [kind |-> "corrupt", map |-> EmptyDict]

\* the other threads that are inside json.dump when thread k puts its entry
Disturbed(k) ==
    [j \in Slots |-> IF j # k /\ pc[j] = "dump" THEN "dump_torn" ELSE pc[j]]

\* lines 241-244: stock_cache[key] = {'data': data, 'timestamp': time.time()}
StoreEntry(k) ==
    /\ pc[k] = "store"
    /\ stock_cache' = Stored(stock_cache, KeyOf(k), ValidDoc(EndpointOf(k).base), clock)
    /\ written' = Stored(written, KeyOf(k), ValidDoc(EndpointOf(k).base), clock)
    /\ pc' = [Disturbed(k) EXCEPT ![k] = "open"]
    /\ UNCHANGED <<sleep_until, sent, call, batchVarsButPc, loc, stats, limiterVars, hrl, cache_file>>

\* save_cache, line 58: open(CACHE_FILE, 'w') truncates the file
OpenFile(k) ==
    /\ pc[k] = "open"
    /\ cache_file' = TornFile
    /\ pc' = [pc EXCEPT ![k] = "dump"]
    /\ UNCHANGED <<sleep_until, sent, call, batchVarsButPc, loc, stats, limiterVars, clientVars>>

\* another thread has the cache file open for writing
OtherWriter(k) ==
    \E j \in Slots : j # k /\ pc[j] \in {"dump", "dump_torn"}

\* save_cache, lines 58-59: json.dump has written the mapping as it is and
\* the with block closes the file; the text is whole unless another thread
\* has truncated the file meanwhile and not yet written it
CloseFile(k) ==
    /\ pc[k] = "dump"
    /\ cache_file' \in {[kind |-> "cache", map |-> stock_cache]}
                          \cup (IF OtherWriter(k) THEN {TornFile} ELSE {})
    /\ pc' = [pc EXCEPT ![k] = "stored"]
    /\ UNCHANGED <<sleep_until, sent, call, batchVarsButPc, loc, stats, limiterVars, clientVars>>

\* save_cache, lines 58-61: the dump that another thread's put fell into
\* ends, with the whole mapping in the file or with unparsable text
CloseTorn(k) ==
    /\ pc[k] = "dump_torn"
    /\ cache_file' \in {TornFile, [kind |-> "cache", map |-> stock_cache]}
    /\ pc' = [pc EXCEPT ![k] = "stored"]
    /\ UNCHANGED <<sleep_until, sent, call, batchVarsButPc, loc, stats, limiterVars, clientVars>>

\* _fmp_get returns data; fetch_stock_data goes on to its next endpoint,
\* whose answer is valid as well
NextEndpoint(k) ==
    /\ pc[k] = "stored"
    /\ loc[k].ep < NumEndpoints
    /\ loc' = [loc EXCEPT ![k].ep = @ + 1]
    /\ pc' = [pc EXCEPT ![k] = "store"]
    /\ UNCHANGED <<sleep_until, sent, call, batchVarsButPc, stats, limiterVars, clientVars, cache_file>>

\* the two identifiers of the round
PersistInput == <<"A", "B">>

InitPersist ==
    /\ call = NoCall
    /\ batch_size = MaxTickers
    /\ input = PersistInput
    /\ i = 0
    /\ all_results = EmptyDict
    /\ mpc = "executor"
    /\ tickers = PersistInput
    /\ retry_count = 0
    /\ sleep_until = 0
    /\ results = EmptyDict
    /\ pc = [k \in Slots |-> IF k \in PoolThreads THEN "store" ELSE "idle"]
    /\ data = [k \in Slots |-> NoData]
    /\ processed_tickers = {}
    /\ failed_tickers = {}
    /\ retry_queue = <<>>
    /\ lock = 0
    /\ loc = [k \in Slots |-> NoLocals]
    /\ stats = [k \in Slots |-> NoStats]
    /\ LimiterInit
    /\ ClientInit([kind |-> "missing", map |-> EmptyDict])

NextPersist ==
    \/ \E k \in PoolThreads : StoreEntry(k)
    \/ \E k \in PoolThreads : OpenFile(k)
    \/ \E k \in PoolThreads : CloseFile(k)
    \/ \E k \in PoolThreads : CloseTorn(k)
    \/ \E k \in PoolThreads : NextEndpoint(k)

SpecPersist == InitPersist /\ [][NextPersist]_vars

(***************************************************************************)
(* The retry rounds of process_batch against the clock: the orchestrator   *)
(* of Spec with the cooldown between two rounds as a sleep of              *)
(* RATE_LIMIT_DELAY (lines 444-447).                                       *)
(***************************************************************************)
\* time.sleep(RATE_LIMIT_DELAY) of process_batch returns
RetrySlept ==
    /\ mpc = "sleep"
    /\ clock >= sleep_until
    /\ mpc' = "while"
    /\ UNCHANGED <<sleep_until, sent, call, input, batch_size, i, all_results, tickers, retry_count, results,
                   pc, data, processed_tickers, failed_tickers, retry_queue, lock, cache_file, loc, stats, limiterVars, clientVars>>

\* one batch of two identifiers
RoundsInput == <<"A", "B">>

InitRounds ==
    /\ call = NoCall
    /\ BatchInit
    /\ input = RoundsInput
    /\ batch_size = MaxTickers
    /\ LimiterInit
    /\ ClientInit([kind |-> "missing", map |-> EmptyDict])

NextRounds ==
    \/ Tick
    \/ NextBatch
    \/ ReturnAll
    \/ BatchReturned
    \/ SubmitRound
    \/ LeaveWhile
    \/ ExecutorExit
    \/ DrainQueue
    \/ RetrySlept
    \/ \E k \in Slots : StartTask(k)
    \/ \E k \in Slots : Admitted(k)
    \/ \E k \in Slots : Fetched(k)
    \/ \E k \in Slots : RecordSuccess(k)
    \/ \E k \in Slots : RecordFailure(k)
    \/ \E k \in Slots : PutRetry(k)

SpecRounds == InitRounds /\ [][NextRounds]_vars

(***************************************************************************)
(* The orchestrator of Spec against a provider whose answers are valid or  *)
(* fail validation or transport, and nothing else: whatever is missing     *)
(* from a record is missing because of such a failure.                     *)
(***************************************************************************)
\* the failures of an _fmp_get call that are none of 401, 429 and 404
SoftKinds == {"validation", "transport"}

\* one _fmp_get: a cache hit, a valid answer, or one of those failures
SoftCallOutcomes(e) ==
    {o \in CallOutcomes(e) : o.kind \in {"none"} \cup SoftKinds}

\* every way the first n calls of fetch_stock_data can then turn out
SoftFetchRuns[n \in 0..NumEndpoints] ==
    IF n = 0
    THEN {[req_none |-> FALSE, any_none |-> FALSE, cause |-> "none"]}
    ELSE {FetchStep(acc, Endpoints[n], o) :
             acc \in SoftFetchRuns[n - 1], o \in SoftCallOutcomes(Endpoints[n])}

\* data = fetch_stock_data(ticker)
FetchedSoft(k) ==
    /\ pc[k] = "fetch"
    /\ \E a \in SoftFetchRuns[NumEndpoints] :
          data' = [data EXCEPT ![k] =
                      [rec |-> FetchRecord(a.req_none, a.any_none),
                       cause |-> ErrorClass(a.cause)]]
    /\ pc' = [pc EXCEPT ![k] = "update"]
    /\ UNCHANGED <<sleep_until, sent, call, input, batch_size, i, all_results, mpc, tickers, retry_count,
                   results, processed_tickers, failed_tickers, retry_queue, lock, cache_file, loc, stats, limiterVars, clientVars>>

NextSoft ==
    \/ NextBatch
    \/ ReturnAll
    \/ BatchReturned
    \/ SubmitRound
    \/ LeaveWhile
    \/ ExecutorExit
    \/ DrainQueue
    \/ CooldownOver
    \/ \E k \in Slots : StartTask(k)
    \/ \E k \in Slots : Admitted(k)
    \/ \E k \in Slots : FetchedSoft(k)
    \/ \E k \in Slots : RecordSuccess(k)
    \/ \E k \in Slots : RecordFailure(k)
    \/ \E k \in Slots : PutRetry(k)

SpecSoft == InitRounds /\ [][NextSoft]_vars

(***************************************************************************)
(* validate_response_data as a function of its arguments: a call with a    *)
(* document and an endpoint, and its return.                               *)
(***************************************************************************)
\* Python's True and False as return values
PyBool(b) == IF b THEN "True" ELSE "False"

\* every endpoint kind the validator names, and one it does not
ValidatedKinds == {"profile"} \cup StatementKinds \cup AnyOfKinds \cup {"quote"}

\* the field names the documents of a kind are built from
FieldPool(base) == RequiredFields(base) \cup ProviderFields(base)

\* None, the empty list and the empty object; an object, a list of one record
\* and a list of two records, for every choice of fields
ValidateDocs(base) ==
    {NoneDoc, ListDoc(<<>>)}
    \cup {ObjectDoc(fields) : fields \in SUBSET FieldPool(base)}
    \cup {ListDoc(<<fields>>) : fields \in SUBSET FieldPool(base)}
    \cup {ListDoc(<<fields, {"date"}>>) : fields \in SUBSET FieldPool(base)}

ValidateCalls ==
    UNION {{[fn |-> "validate_response_data", args |-> <<doc, <<base, "AAPL">> >>,
             ret |-> "pending"] : doc \in ValidateDocs(base)} : base \in ValidatedKinds}

InitValidate ==
    /\ call \in ValidateCalls
    /\ BatchInit
    /\ input = <<>>
    /\ batch_size = 1
    /\ LimiterInit
    /\ ClientInit([kind |-> "missing", map |-> EmptyDict])

\* the call returns
Validate ==
    /\ call.fn = "validate_response_data"
    /\ call.ret = "pending"
    /\ call' = [call EXCEPT !.ret =
                   PyBool(validate_response_data(call.args[1], BaseEndpoint(call.args[2])))]
    /\ UNCHANGED <<sleep_until, batchVars, loc, stats, limiterVars, clientVars, sent, cache_file>>

NextValidate == Validate

SpecValidate == InitValidate /\ [][NextValidate]_vars

(***************************************************************************)
(* The cache key of _fmp_get (lines 200-205) as a function of the request: *)
(* params["apikey"] = FMP_API_KEY, then                                    *)
(* f"{endpoint}|{json.dumps(params, sort_keys=True)}".  A dict is the      *)
(* sequence of its items in insertion order; a text is the sequence of its *)
(* pieces.                                                                 *)
(***************************************************************************)
\* the parameter names, in the order in which sort_keys puts them
ParamNames == <<"apikey", "limit", "serietype">>

\* the configured key
FMP_API_KEY == "KEY"

\* params[name] = value: an item that is there keeps its place
SetItem(params, name, value) ==
    IF \E n \in DOMAIN params : params[n][1] = name
    THEN [n \in DOMAIN params |->
             IF params[n][1] = name THEN <<name, value>> ELSE params[n]]
    ELSE Append(params, <<name, value>>)

\* the text of a dict whose items are written in the given order
RECURSIVE JsonItems(_)
JsonItems(items) ==
    IF items = <<>>
    THEN <<>>
    ELSE <<items[1][1], ": ", items[1][2]>>
         \o (IF Len(items) > 1 THEN <<", ">> ELSE <<>>)
         \o JsonItems(Tail(items))

\* json.dumps(params) without sort_keys: the items in insertion order
JsonDumpsUnsorted(params) == <<"{">> \o JsonItems(params) \o <<"}">>

\* json.dumps(params, sort_keys=True): the items in the order of their names
JsonDumps(params) ==
    LET ranks  == SelectSeq([r \in 1..Len(ParamNames) |-> r],
                            LAMBDA r : \E n \in DOMAIN params :
                                           params[n][1] = ParamNames[r])
        item(r) == params[CHOOSE n \in DOMAIN params : params[n][1] = ParamNames[r]]
    IN  <<"{">> \o JsonItems([m \in 1..Len(ranks) |-> item(ranks[m])]) \o <<"}">>

\* key = f"{endpoint}|{json.dumps(params, sort_keys=True)}"
FmpCacheKey(endpoint, params) ==
    <<endpoint, "|">> \o JsonDumps(SetItem(params, "apikey", FMP_API_KEY))

\* the parameter dicts of the callers: no parameter, limit, serietype or
\* both, in either order of insertion
ParamDicts ==
    {<<>>}
    \cup {<<<<"limit", v>>>> : v \in {"1", "5"}}
    \cup {<<<<"serietype", "line">>>>}
    \cup {<<<<"limit", v>>, <<"serietype", "line">>>> : v \in {"1", "5"}}
    \cup {<<<<"serietype", "line">>, <<"limit", v>>>> : v \in {"1", "5"}}

\* the requests
KeyRequests ==
    {[endpoint |-> e, params |-> p] :
        e \in {"profile/A", "profile/B", "income-statement/A"}, p \in ParamDicts}

\* two _fmp_get calls, up to their cache keys
KeyCalls ==
    {[fn |-> "_fmp_get", args |-> <<a, b>>, ret |-> [keys |-> <<>>]] :
        a \in KeyRequests, b \in KeyRequests}

InitKey ==
    /\ call \in KeyCalls
    /\ BatchInit
    /\ input = <<>>
    /\ batch_size = 1
    /\ LimiterInit
    /\ ClientInit([kind |-> "missing", map |-> EmptyDict])

\* both calls have computed their keys
ComputeKeys ==
    /\ call.fn = "_fmp_get"
    /\ call.ret.keys = <<>>
    /\ call' = [call EXCEPT !.ret =
                   [keys |-> <<FmpCacheKey(call.args[1].endpoint, call.args[1].params),
                               FmpCacheKey(call.args[2].endpoint, call.args[2].params)>>]]
    /\ UNCHANGED <<sleep_until, batchVars, loc, stats, limiterVars, clientVars, sent, cache_file>>

NextKey == ComputeKeys

SpecKey == InitKey /\ [][NextKey]_vars

(***************************************************************************)
(* validate_api_key (lines 81-103) as a function of whether FMP_API_KEY is *)
(* set and of the answer to its test request: the status code, 0 standing  *)
(* for a requests.get that raises.  The result is the value returned and   *)
(* the exception that reaches the caller.                                  *)
(***************************************************************************)
\* a validate_api_key whose try block lets the ValueError of a 401 pass
validate_api_key_raising(key_set, status) ==
    IF ~key_set
    THEN [value |-> "none", raises |-> "ValueError"]
    ELSE IF status = 401
    THEN [value |-> "none", raises |-> "ValueError"]
    ELSE IF status = 200
    THEN [value |-> "True", raises |-> "none"]
    ELSE [value |-> "False", raises |-> "none"]

validate_api_key(key_set, status) ==
    IF ~key_set
    THEN [value |-> "none", raises |-> "ValueError"]   \* line 84, outside the try
    ELSE IF status = 0                                  \* requests.get raises
    THEN [value |-> "False", raises |-> "none"]         \* caught at line 101
    ELSE IF status = 401                                \* raise ValueError
    THEN [value |-> "False", raises |-> "none"]         \* caught at line 101
    ELSE IF status = 429
    THEN [value |-> "False", raises |-> "none"]         \* line 96
    ELSE IF status # 200                                \* raise ValueError
    THEN [value |-> "False", raises |-> "none"]         \* caught at line 101
    ELSE [value |-> "True", raises |-> "none"]

\* the status codes of HTTP, and 0 for no answer
StatusCodes == {0} \cup 100..599

ApiKeyCalls ==
    {[fn |-> "validate_api_key", args |-> <<key_set, status>>,
      ret |-> [value |-> "pending", raises |-> "none"]] :
        key_set \in BOOLEAN, status \in StatusCodes}

InitApiKey ==
    /\ call \in ApiKeyCalls
    /\ BatchInit
    /\ input = <<>>
    /\ batch_size = 1
    /\ LimiterInit
    /\ ClientInit([kind |-> "missing", map |-> EmptyDict])

\* the call returns or raises
ValidateApiKey ==
    /\ call.fn = "validate_api_key"
    /\ call.ret.value = "pending"
    /\ call' = [call EXCEPT !.ret = validate_api_key(call.args[1], call.args[2])]
    /\ UNCHANGED <<sleep_until, batchVars, loc, stats, limiterVars, clientVars, sent, cache_file>>

NextApiKey == ValidateApiKey

SpecApiKey == InitApiKey /\ [][NextApiKey]_vars

(***************************************************************************)
(* Properties of the validator (checked under SpecValidate).               *)
(***************************************************************************)
\* validate_response_data has returned for a document of the kind `base`
Validated(base) ==
    /\ call.fn = "validate_response_data"
    /\ call.ret # "pending"
    /\ call.args[2][1] = base

\* the document is None, an empty list or an empty object
EmptyDocument(doc) ==
    \/ doc.kind = "none"
    \/ doc.kind = "list" /\ doc.recs = <<>>
    \/ doc.kind = "object" /\ doc.recs = <<{}>>

\* the document is a list and has a first record
HasFirstRecord(doc) == doc.kind = "list" /\ doc.recs # <<>>

\* the required fields of the kind that the first record carries
RequiredPresent(doc, base) == doc.recs[1] \cap RequiredFields(base)

\* the kinds for which the validator names required fields
KindsWithRequiredFields == {"profile"} \cup AnyOfKinds

C13_ProfileValidation ==
    (Validated("profile") /\ HasFirstRecord(call.args[1])) =>
        IF {"symbol", "price", "mktCap"} \subseteq call.args[1].recs[1]
        THEN call.ret = "True"
        ELSE call.ret = "False"

\* the profile whose first record is {"symbol": ...} alone was rejected
C13_Witness ==
    /\ Validated("profile")
    /\ call.args[1] = ListDoc(<<{"symbol"}>>)
    /\ call.ret = "False"

\* the TTM-suffixed fields fetch_stock_data reads from the document of a kind
TTMFields(base) ==
    IF base = "key-metrics-ttm"
    THEN {"peRatioTTM", "pbRatioTTM", "roeTTM"}
    ELSE {"returnOnEquityTTM", "returnOnAssetsTTM"}

\* C14 -- TTM documents validate: validate_response_data returns True for a
\* key-metrics-ttm or ratios-ttm document whose first record carries the
\* provider's TTM-suffixed fields (peRatioTTM, pbRatioTTM, roeTTM;
\* returnOnEquityTTM, ...), the fields fetch_stock_data reads, also when the
\* record contains just one of them.
C14_TTMDocumentsValidate ==
    \A base \in {"key-metrics-ttm", "ratios-ttm"} :
        (/\ Validated(base)
         /\ HasFirstRecord(call.args[1])
         /\ call.args[1].recs[1] \cap TTMFields(base) # {})
            => call.ret = "True"

(***************************************************************************)
(* Properties of the request limiter (checked under SpecLimiter).          *)
(***************************************************************************)
\* the callers wait_if_needed released in the interval (clock - WINDOW_SIZE, clock]
ReleasedInWindow == Len(SelectSeq(released, LAMBDA t : clock - t < WINDOW_SIZE))

\* C1 -- Sliding-window cap: in any trailing interval of WINDOW_SIZE the
\* number of callers that wait_if_needed has let through, counting every
\* admission ever granted and not only the timestamps the list still holds,
\* is at most MAX_REQUESTS_PER_WINDOW.
C1_SlidingWindowCap == ReleasedInWindow <= MAX_REQUESTS_PER_WINDOW

(***************************************************************************)
(* Properties of the two limiters under the threads of the pool (checked   *)
(* under SpecAdmit).                                                       *)
(***************************************************************************)
\* the GETs sent to the provider in the interval (clock - WINDOW_SIZE, clock]
SentInWindow == Len(SelectSeq(sent, LAMBDA t : clock - t < WINDOW_SIZE))

\* C11 -- One admission per network call: in any trailing interval of
\* WINDOW_SIZE the number of GETs sent to the provider is at most
\* MAX_REQUESTS_PER_WINDOW, whatever the number of identifiers and workers.
C11_NetworkCallsInWindow == SentInWindow <= MAX_REQUESTS_PER_WINDOW

\* the time the thread's time.sleep still has to run
SleepLeft(k) == loc[k].wake - clock

\* the step that takes the thread further inside its call, or out of it, can
\* be taken now
CanProceed(k) ==
    CASE pc[k] = "wait"       -> ENABLED (PoolAdmit(k) \/ WaitBlock(k))
      [] pc[k] = "rl_sleep"   -> ENABLED PoolWake(k)
      [] pc[k] = "hrl"        -> ENABLED HrlEnter(k)
      [] pc[k] = "hrl_window" -> ENABLED HrlWindowSlept(k)
      [] pc[k] = "hrl_delay"  -> ENABLED HrlDelaySlept(k)
      [] OTHER                -> TRUE

\* C19 -- The limiter only delays, never rejects: a thread inside
\* wait_if_needed or handle_rate_limit is never stuck and never leaves by
\* another way than the return.  Whatever the other threads do and whatever
\* the history holds, the thread either can take its next step now, or
\* sleeps for a time that is bounded (by the window, or by REQUEST_DELAY and
\* the jitter) and can go on when the sleep is over, or waits for the
\* limiter's lock, whose holder is such a sleeper inside wait_if_needed.
C19_OnlyDelays ==
    \A k \in PoolThreads :
        /\ pc[k] \in {"wait", "rl_sleep", "hrl", "hrl_window", "hrl_delay", "get"}
        /\ (pc[k] = "wait" /\ rl_lock = 0) => CanProceed(k)
        /\ (pc[k] = "wait" /\ rl_lock # 0) =>
              /\ rl_lock \in PoolThreads \ {k}
              /\ pc[rl_lock] = "rl_sleep"
        /\ pc[k] = "rl_sleep" =>
              /\ rl_lock = k
              /\ SleepLeft(k) <= WINDOW_SIZE
              /\ SleepLeft(k) <= 0 => CanProceed(k)
        /\ pc[k] = "hrl" => CanProceed(k)
        /\ pc[k] = "hrl_window" =>
              /\ SleepLeft(k) <= WINDOW_SIZE
              /\ SleepLeft(k) <= 0 => CanProceed(k)
        /\ pc[k] = "hrl_delay" =>
              /\ SleepLeft(k) <= REQUEST_DELAY + 1
              /\ SleepLeft(k) <= 0 => CanProceed(k)

\* one thread's sleep inside wait_if_needed is over while it still holds the
\* lock the other thread waits for, after GETs have been sent
C19_Witness ==
    \E k, j \in PoolThreads :
        /\ pc[k] = "rl_sleep"
        /\ SleepLeft(k) <= 0
        /\ loc[k].wake > loc[k].now
        /\ pc[j] = "wait"
        /\ sent # <<>>

\* C20 -- Minimum spacing: no two GETs are sent to the provider less than
\* REQUEST_DELAY apart, whether by one thread or by two.
C20_MinimumSpacing ==
    \A a, b \in 1..Len(sent) :
        (a < b) => (sent[b] - sent[a] >= REQUEST_DELAY)

\* wait_if_needed releases a caller in this step
Releases == clock' = clock /\ released' # released

\* C25 -- Recorded instant is the release instant: the timestamp that
\* wait_if_needed records for an admission is the instant at which the caller
\* is released, after any blocking, and the list of timestamps is ordered by
\* time.
C25_RecordedInstantIsRelease ==
    [][Releases =>
          /\ requests' # <<>>
          /\ requests'[Len(requests')] = clock
          /\ \A a, b \in 1..Len(requests') :
                a < b => requests'[a] <= requests'[b]]_vars

\* the timestamps of the list that lie in the window now
InWindowTimestamps == RemoveOld(requests, clock)

\* C26 -- Window-full blocking: the list never holds more than max_requests
\* timestamps; a caller that sleeps was delayed by exactly window_size -
\* (now - oldest timestamp); and once max_requests callers have been
\* admitted within the window, the list holds exactly max_requests in-window
\* timestamps and the next call is not admitted at once.
C26_WindowFullBlocking ==
    /\ Len(requests) <= MAX_REQUESTS_PER_WINDOW
    /\ \A k \in Callers : pc[k] = "rl_sleep" =>
          loc[k].wake - loc[k].now = WINDOW_SIZE - (loc[k].now - requests[1])
    /\ ReleasedInWindow >= MAX_REQUESTS_PER_WINDOW =>
          /\ Len(InWindowTimestamps) = MAX_REQUESTS_PER_WINDOW
          /\ \A k \in Callers : ~ENABLED WaitAdmit(k, "wait", FALSE)

(***************************************************************************)
(* Properties of the cache store (checked under SpecStore).                *)
(***************************************************************************)
\* the file is missing, unparsable, or not a mapping of keys to entries that
\* carry 'data' and 'timestamp'
Unusable(file) ==
    \/ file.kind \in {"missing", "corrupt", "nonmapping", "results"}
    \/ /\ file.kind = "cache"
       /\ \E key \in DOMAIN file.map : ~HasData(file.map[key])

\* C22 -- Corrupt storage is dropped: when the cache file is missing,
\* unparsable or not of the expected shape, load_cache returns an empty
\* cache, so that the fetches that follow are cache misses.
C22_CorruptStorageDropped ==
    [][(mpc = "import" /\ mpc' # "import" /\ Unusable(cache_file))
          => stock_cache' = EmptyDict]_vars

\* C23 -- clear_cache removes the cache file and empties the in-memory
\* cache: right after it no key is in stock_cache (every key reads as a
\* miss) and the file does not exist; the rate limiter, the globals of
\* handle_rate_limit and the BatchState are as they were.
C23_ClearCache ==
    [][ClearCache =>
          /\ DOMAIN stock_cache' = {}
          /\ cache_file'.kind = "missing"
          /\ UNCHANGED <<clock, requests, rl_lock, released, hrl>>
          /\ UNCHANGED <<processed_tickers, failed_tickers, retry_queue, lock,
                         all_results, results>>]_vars

\* clear_cache has run on a cache that held entries and a file that
\* existed, after the limiter had admitted a call
C23_Witness ==
    /\ call.fn = "clear_cache"
    /\ stock_cache = EmptyDict
    /\ cache_file.kind = "missing"
    /\ written # EmptyDict
    /\ requests # <<>>
    /\ processed_tickers # {}

\* C24 -- Storage errors are non-fatal: when _fmp_get has validated an
\* answer and put it in the cache, the call returns that document, whether
\* or not persisting the cache succeeded.
C24_StorageErrorsNonFatal ==
    [][\A k \in Slots :
          (/\ pc[k] = "get"
           /\ pc'[k] = "fetch"
           /\ stock_cache' # stock_cache
           /\ KeyOf(k) \in DOMAIN stock_cache')
             => loc'[k].ret = stock_cache'[KeyOf(k)].data]_vars

(***************************************************************************)
(* Properties of the 429 cooldown (checked under SpecCooldown).            *)
(***************************************************************************)
\* the thread sleeps the cooldown of a 429 it was answered at this instant
AnsweredAt(k) == loc[k].wake - RATE_LIMIT_DELAY

\* C21 -- Provider rate-limit cooldown: after the provider has answered a
\* request with a 429, no thread sends a further GET until RATE_LIMIT_DELAY
\* has elapsed: while a thread sleeps its cooldown, no GET lies strictly
\* between the instant of the 429 and the end of the cooldown.
C21_ProviderCooldown ==
    \A k \in PoolThreads : pc[k] = "cool429" =>
        \A n \in 1..Len(sent) :
            ~(AnsweredAt(k) < sent[n] /\ sent[n] < loc[k].wake)

(***************************************************************************)
(* Properties of the cache (checked under SpecFetch).                      *)
(***************************************************************************)
\* fetch_stock_data has returned and each of its documents came from the cache
ServedFromCache(k) == pc[k] = "update" /\ stats[k].hits = NumEndpoints

\* C2 -- Cached answers are free: a fetch of an identifier whose every
\* endpoint is answered from a cache entry that has not expired records no
\* admission, neither in handle_rate_limit nor in
\* RateLimiter.wait_if_needed, and sends no request.
C2_CachedAnswersAreFree ==
    \A k \in Slots :
        ServedFromCache(k) =>
            /\ stats[k].waits = 0
            /\ stats[k].hrls = 0
            /\ stats[k].net = 0

\* the task is about to look its key up in the cache
AtCacheCheck(k) == pc[k] = "fetch" /\ loc[k].ep <= NumEndpoints

\* an entry was written under the key, at startup from the file or later,
\* and less than CACHE_EXPIRY has passed since its timestamp
WrittenAndFresh(key) ==
    /\ key \in DOMAIN written
    /\ clock - written[key].timestamp < CACHE_EXPIRY

\* C3 -- Cache freshness: a read of a key returns the document last written
\* under it exactly when less than CACHE_EXPIRY has passed since the entry's
\* timestamp, be the entry written by this process or loaded from the file
\* at startup; otherwise the read is a miss, the stale document is not
\* returned and the document is fetched again.
C3_CacheFreshness ==
    [][ \A k \in Slots :
          (AtCacheCheck(k) /\ <<pc[k], loc[k]>>' # <<pc[k], loc[k]>>) =>
              IF WrittenAndFresh(KeyOf(k))
              THEN /\ pc'[k] = "fetch"
                   /\ loc'[k].ep = loc[k].ep + 1
                   /\ loc'[k].ret = written[KeyOf(k)].data
                   /\ stats'[k].net = stats[k].net
              ELSE /\ pc'[k] = "hrl"
                   /\ loc'[k] = loc[k] ]_vars

\* the profile, fetched and written earlier in this run, has been answered
\* from the cache, and the next key, whose entry came from the file and has
\* expired since, is being fetched again
C3_Witness ==
    \E k \in Slots :
        /\ pc[k] = "hrl"
        /\ loc[k].ep = 2
        /\ stats[k].hits = 1
        /\ written[CacheKey("profile", tickers[k])].timestamp >= StartTime
        /\ loc[k].ret = written[CacheKey("profile", tickers[k])].data
        /\ KeyOf(k) \in DOMAIN stock_cache
        /\ ~WrittenAndFresh(KeyOf(k))

\* thread k's _fmp_get returns a document after a network call
ReturnsFetched(k) ==
    /\ pc[k] = "get"
    /\ pc'[k] = "fetch"
    /\ loc'[k].ret # NoneDoc

SameRequest(a, b) ==
    /\ a.endpoint = b.endpoint
    /\ Range(a.params) = Range(b.params)

\* C34 -- Cache key determinism: two requests get the same cache key if and
\* only if they have the same endpoint and the same parameters, in whatever
\* order the parameters were given.
C34_CacheKeyDeterminism ==
    (call.fn = "_fmp_get" /\ call.ret.keys # <<>>) =>
        (call.ret.keys[1] = call.ret.keys[2]
            <=> SameRequest(call.args[1], call.args[2]))

\* one key for two requests that give the same two parameters in different
\* orders
C34_Witness ==
    /\ call.fn = "_fmp_get"
    /\ call.ret.keys # <<>>
    /\ call.ret.keys[1] = call.ret.keys[2]
    /\ Len(call.args[1].params) = 2
    /\ call.args[1].params # call.args[2].params

\* C37 -- Request counter under concurrency: request_count is the number of
\* admissions handle_rate_limit has granted since its last window reset, and
\* at most MAX_REQUESTS_PER_WINDOW admissions are granted between two
\* resets; so the counter never exceeds MAX_REQUESTS_PER_WINDOW.
C37_RequestCounter ==
    hrl.request_count <= MAX_REQUESTS_PER_WINDOW

\* validate_api_key is over, FMP_API_KEY being set
KeyValidated ==
    /\ call.fn = "validate_api_key"
    /\ call.ret.value # "pending"
    /\ call.args[1]

\* C39 -- validate_api_key reports instead of raising: with an API key
\* configured no exception reaches the caller, the call returns True when
\* the test request answers 200 and False when it answers 401, 429 or any
\* other status.
C39_ValidateApiKeyReports ==
    KeyValidated =>
        /\ call.ret.raises = "none"
        /\ call.ret.value = (IF call.args[2] = 200 THEN "True" ELSE "False")

\* the test request was answered 401 and the call returned False
C39_Witness ==
    /\ KeyValidated
    /\ call.args[2] = 401
    /\ call.ret = [value |-> "False", raises |-> "none"]

\* C16 -- Write-through durability: whatever is written to the cache file
\* is the in-memory cache mapping, each value an entry {data, timestamp}, so
\* that after every write, of a fetch or of a whole batch, the file holds
\* exactly the in-memory cache; nothing else is ever written to the file.
C16_WriteThrough ==
    [][ cache_file' # cache_file =>
            cache_file' = [kind |-> "cache", map |-> stock_cache'] ]_vars

(***************************************************************************)
(* Properties of the batch orchestrator (checked under Spec).              *)
(***************************************************************************)
GetStatistics == Statistics(processed_tickers, failed_tickers)

Returned == mpc = "returned"

\* C15 -- successRate equals processedCount / (processedCount + failedCount)
\* after any sequence of outcomes, and is exactly 0, without a division by
\* zero, when both counts are zero.
C15_SuccessRate ==
    LET np == Cardinality(processed_tickers)
        nf == Cardinality(failed_tickers)
        rate == GetStatistics.success_rate
    IN  /\ rate.den # 0
        /\ np + nf > 0 => rate.num * (np + nf) = np * rate.den
        /\ np + nf = 0 => rate.num = 0

\* two identifiers succeeded and one failed: the rate is 2/3
C15_Witness ==
    /\ Cardinality(processed_tickers) = 2
    /\ Cardinality(failed_tickers) = 1
    /\ GetStatistics.success_rate.num * 3 = 2 * GetStatistics.success_rate.den

\* C17 -- Result mapping: at the return of fetch_stock_data_batch the keys
\* of the returned mapping are the input identifiers whose fetch succeeded in
\* some round, which is processed_tickers; when no fetch failed the mapping
\* has every input identifier, across all batches.
C17_ResultMapping ==
    Returned =>
        /\ DOMAIN all_results = processed_tickers
        /\ DOMAIN all_results \subseteq Range(input)
        /\ failed_tickers = {} => DOMAIN all_results = Range(input)

\* three batches of one identifier have returned: two identifiers are in the
\* mapping, the third never succeeded
C17_Witness ==
    /\ Returned
    /\ batch_size = 1
    /\ Len(input) = 3
    /\ Cardinality(DOMAIN all_results) = 2
    /\ failed_tickers \ processed_tickers # {}

\* C18 -- Outcome classification: a process_ticker(t) call either succeeds
\* (its data is a record, returned as {t: record}; t is added to
\* processed_tickers, not to failed_tickers, and not enqueued) or fails (its
\* data is None and None is returned; t is added to failed_tickers, not to
\* processed_tickers, and put on the retry queue); never both, never neither.
C18_OutcomeClassification ==
    [][ \A k \in Slots :
          /\ (pc[k] = "update" /\ pc'[k] # "update") =>
                IF data[k].rec # NoneVal
                THEN /\ pc'[k] = "done"
                     /\ processed_tickers' = processed_tickers \cup {tickers[k]}
                     /\ failed_tickers' = failed_tickers
                     /\ retry_queue' = retry_queue
                ELSE /\ pc'[k] = "put"
                     /\ failed_tickers' = failed_tickers \cup {tickers[k]}
                     /\ processed_tickers' = processed_tickers
          /\ (pc[k] = "put" /\ pc'[k] # "put") =>
                /\ pc'[k] = "done"
                /\ data[k].rec = NoneVal
                /\ retry_queue' = Append(retry_queue, tickers[k])
                /\ processed_tickers' = processed_tickers
                /\ failed_tickers' = failed_tickers
          /\ (mpc = "executor" /\ mpc' = "drain") =>
                \A j \in 1..Len(tickers) :
                    IF data[j].rec # NoneVal
                    THEN /\ tickers[j] \in DOMAIN results'
                         /\ results'[tickers[j]] = data[j].rec
                    ELSE tickers[j] \in DOMAIN results' => tickers[j] \in DOMAIN results
      ]_vars

\* in one round, a call has succeeded and another has failed and is enqueued
C18_Witness ==
    \E j, k \in Slots :
        /\ pc[j] = "done" /\ data[j].rec # NoneVal
        /\ tickers[j] \in processed_tickers \ failed_tickers
        /\ pc[k] = "done" /\ data[k].rec = NoneVal
        /\ tickers[k] \in failed_tickers \ processed_tickers
        /\ retry_queue = <<tickers[k]>>

\* C4 -- Retry success clears the failure: when the run has returned and
\* every input identifier succeeded, at once or in a retry round, the result
\* mapping holds every identifier, processedCount is the input size and
\* failedCount is 0.
C4_RetrySuccessClearsFailure ==
    (Returned /\ processed_tickers = Range(input)) =>
        /\ DOMAIN all_results = Range(input)
        /\ GetStatistics.processed = Len(input)
        /\ GetStatistics.failed = 0

\* no fetch of the run has succeeded
EveryFetchFailed ==
    /\ processed_tickers = {}
    /\ \A k \in Slots : data[k].rec \in {"unset", NoneVal}

\* C5 -- Retry termination: while every fetch fails the run goes on to its
\* return within the bounded number of retry rounds (it is never stuck
\* before returning), and at the return failedCount is the input size,
\* processedCount is 0, the result mapping is empty and successRate is 0.
C5_RetryTermination ==
    EveryFetchFailed =>
        /\ retry_count <= max_retries
        /\ ~Returned => ENABLED Next
        /\ Returned =>
              /\ GetStatistics.failed = Len(input)
              /\ GetStatistics.processed = 0
              /\ all_results = EmptyDict
              /\ GetStatistics.success_rate.num = 0

\* the rounds the current process_batch call has dispatched while identifiers
\* are left to dispatch: every round that left a failure behind was counted
\* by retry_count += 1, the round in flight or being drained is not yet
RoundsDispatched ==
    retry_count + (IF mpc \in {"executor", "drain"} THEN 1 ELSE 0)

\* C27 -- Retry round bound: an identifier that fails on every attempt is
\* dispatched exactly 1 + maxRetryRounds times, the initial round and
\* maxRetryRounds retry rounds, and never more: when process_batch returns
\* with identifiers still failing, 1 + max_retries rounds were dispatched,
\* and no state has seen more.
C27_RetryRoundBound ==
    /\ tickers # <<>> => RoundsDispatched <= 1 + max_retries
    /\ (mpc = "batch_return" /\ tickers # <<>>) =>
          RoundsDispatched = 1 + max_retries

\* the instant at which the main thread drained the retry queue of the round
\* before the current one
RoundEndedAt == sleep_until - RATE_LIMIT_DELAY

\* C28 -- Round ordering: pool threads are in flight only while the main
\* thread is inside the executor block; the block is left, and with it the
\* queue drained, the cooldown slept and the next round dispatched, only when
\* every task of the round has completed; and a retry round is dispatched no
\* sooner than RATE_LIMIT_DELAY after the round before it was drained.
C28_RoundOrdering ==
    [][/\ InProcessTicker # {} => mpc = "executor"
       /\ (mpc = "executor" /\ mpc' # "executor") =>
             \A k \in 1..Len(tickers) : pc[k] = "done"
       /\ (mpc' = "executor" /\ mpc # "executor" /\ retry_count > 0) =>
             clock - RoundEndedAt >= RATE_LIMIT_DELAY]_vars

\* a retry round in flight after its cooldown, while the other identifier of
\* the first round has succeeded
C28_Witness ==
    /\ mpc = "executor"
    /\ retry_count = 1
    /\ clock - RoundEndedAt >= RATE_LIMIT_DELAY
    /\ processed_tickers # {}
    /\ \E k \in Slots : pc[k] = "fetch"

\* the tasks of the round in flight whose outcome update has begun: task k
\* has fetched and is past the `if data` of its critical section
Updating(k) ==
    /\ mpc = "executor"
    /\ k <= Len(tickers)
    /\ pc[k] \in {"put", "done"}

\* the tasks of the round whose update has failure as its outcome
FailedUpdates == {k \in Slots : Updating(k) /\ data[k].rec = NoneVal}

\* C29 -- BatchState updates are linearizable: a task that has recorded its
\* failure and not yet enqueued the identifier holds the lock, so whenever
\* the lock is free every failure recorded in the round is in failed_tickers
\* and in the retry queue, exactly once, every success recorded is in
\* processed_tickers, and the queue holds nothing else.
C29_LinearizableUpdates ==
    /\ \A k \in FailedUpdates :
          /\ tickers[k] \in failed_tickers
          /\ tickers[k] \in Range(retry_queue) \/ lock = k
    /\ \A k \in Slots :
          (Updating(k) /\ data[k].rec # NoneVal) =>
              tickers[k] \in processed_tickers
    /\ (mpc = "executor" /\ lock = 0) =>
          /\ Len(retry_queue) = Cardinality(FailedUpdates)
          /\ Range(retry_queue) = {tickers[k] : k \in FailedUpdates}

\* two failures and a success of one round recorded, the lock free, and a
\* fourth task about to enter its critical section
C29_Witness ==
    /\ lock = 0
    /\ Cardinality(FailedUpdates) = 2
    /\ Len(retry_queue) = 2
    /\ \E k \in Slots : Updating(k) /\ data[k].rec # NoneVal
    /\ \E k \in Slots : pc[k] = "update"

\* the workers between the put of their entry and the end of its persist
InCacheStore == {k \in Slots : pc[k] \in {"open", "dump", "dump_torn"}}

\* C30 -- Cache Store mutual exclusion: at most one worker at a time is
\* between the put of its entry and the end of its persist, no persist sees
\* the mapping change under it, and when two workers have each stored and
\* persisted the entry of a different key, both entries are in the in-memory
\* cache and in the durable file.
C30_CacheStoreExclusion ==
    /\ Cardinality(InCacheStore) <= 1
    /\ \A k \in PoolThreads : pc[k] # "dump_torn"
    /\ (\A k \in PoolThreads : pc[k] = "stored") =>
          \A k \in PoolThreads :
              /\ KeyOf(k) \in DOMAIN stock_cache
              /\ cache_file.kind = "cache"
              /\ KeyOf(k) \in DOMAIN cache_file.map

\* C31 -- No nested locking: the limiter's lock is held only by a worker
\* inside wait_if_needed, the BatchState lock only by a worker inside the
\* locked block of process_ticker, and no worker holds both; a worker that
\* fetches or updates the BatchState has released the limiter's lock.
C31_NoNestedLocking ==
    \A k \in Slots :
        /\ rl_lock = k => pc[k] = "rl_sleep"
        /\ lock = k => pc[k] = "put"
        /\ ~(rl_lock = k /\ lock = k)

\* a worker that went through wait_if_needed and through network calls
\* holds the BatchState lock, the limiter's lock being free
C31_Witness ==
    \E k \in Slots :
        /\ lock = k
        /\ rl_lock = 0
        /\ stats[k].waits = 1
        /\ stats[k].net > 0

\* a task of the round whose fetch met a failure at some endpoint: its
\* record is None or lacks a document
MetEndpointFailure(k) ==
    /\ mpc = "executor"
    /\ k <= Len(tickers)
    /\ pc[k] = "done"
    /\ data[k].rec # "full"

\* C32 -- Any endpoint failure is retried: when an endpoint fetch made for an
\* identifier ended in a validation or transport failure, the identifier is
\* in failed_tickers and in the retry queue of that round, and no result
\* mapping holds a partial record.
C32_AnyEndpointFailureRetried ==
    /\ \A k \in Slots :
          MetEndpointFailure(k) =>
              /\ tickers[k] \in failed_tickers
              /\ tickers[k] \in Range(retry_queue)
    /\ \A t \in DOMAIN results : results[t] # "partial"
    /\ \A t \in DOMAIN all_results : all_results[t] # "partial"

\* C35 -- Every identifier is accounted for: when fetch_stock_data_batch has
\* returned, every input identifier is in processed_tickers or in
\* failed_tickers, whatever the input list, the batch size and the outcomes.
C35_EveryIdentifierAccounted ==
    Returned => Range(input) \subseteq processed_tickers \cup failed_tickers

\* a run over the longest input, in batches of one, has returned with
\* identifiers that only succeeded, one that only failed and one that
\* succeeded in a retry
C35_Witness ==
    /\ Returned
    /\ Len(input) = MaxTickers
    /\ batch_size = 1
    /\ processed_tickers \ failed_tickers # {}
    /\ failed_tickers \ processed_tickers # {}
    /\ processed_tickers \cap failed_tickers # {}

\* the identifiers whose attempt failed in the round that is being left
FailedInRound == {tickers[k] : k \in {j \in 1..Len(tickers) : data[j].rec = NoneVal}}

\* C36 -- Retry set: when a round is left the retry queue holds exactly the
\* identifiers whose attempt failed in it, once each; the drain makes them
\* the identifier list and empties the queue; the list is not changed until
\* the next round is submitted; and when a round is submitted the retry
\* queue is empty and no identifier that has succeeded in this process_batch
\* call is among those dispatched.
C36_RetrySet ==
    [][/\ (mpc = "executor" /\ mpc' = "drain") =>
             /\ Range(retry_queue) = FailedInRound
             /\ Len(retry_queue) = Cardinality(FailedInRound)
             /\ retry_queue' = retry_queue
       /\ (mpc = "drain" /\ mpc' # "drain") =>
             /\ tickers' = retry_queue
             /\ retry_queue' = <<>>
       /\ (mpc \in {"sleep", "while"} /\ mpc' \in {"while", "executor"}) =>
             tickers' = tickers
       /\ (mpc = "while" /\ mpc' = "executor") =>
             /\ retry_queue = <<>>
             /\ Range(tickers) \cap DOMAIN results = {}
             /\ \A k \in Slots : pc'[k] = "queued" <=> k <= Len(tickers)
      ]_vars

\* a retry round in flight for the one identifier that failed in the round
\* before, the other identifiers of the batch having succeeded
C36_Witness ==
    /\ mpc = "executor"
    /\ retry_count = 1
    /\ Len(tickers) = 1
    /\ tickers[1] \in failed_tickers
    /\ Cardinality(DOMAIN results) >= 2
    /\ tickers[1] \notin DOMAIN results
    /\ retry_queue = <<>>
    /\ pc[1] = "fetch"

\* the main thread sleeps the cooldown, or has slept it and is at the test of
\* the while loop, with drained identifiers to dispatch
AfterDrain == mpc \in {"sleep", "while"} /\ retry_count > 0 /\ tickers # <<>>

\* C38 -- No idle cooldown: a cooldown slept between rounds is followed by a
\* round that dispatches the drained identifiers: while the cooldown is slept
\* and when it is over the loop condition admits the next round, and
\* process_batch never returns with drained identifiers left undispatched.
C38_NoIdleCooldown ==
    /\ AfterDrain => retry_count < max_retries
    /\ mpc = "batch_return" => tickers = <<>>

\* C6 -- A run always completes: no state is reachable in which the call has
\* not returned and no thread can take a step.
C6_RunCompletes == Returned \/ ENABLED Next

\* C7 -- Authentication failure is fatal: once a fetch has failed on a 401,
\* no further identifier is dispatched, the identifier is neither counted as
\* an ordinary failure nor enqueued for retry, and the run does not go on to
\* drain the queue and return normally.
C7_AuthFailureIsFatal ==
    [][ \A k \in Slots : data[k].cause = "auth" =>
            /\ \A j \in Slots : ~(pc[j] = "queued" /\ pc'[j] = "wait")
            /\ failed_tickers' = failed_tickers
            /\ retry_queue' = retry_queue
            /\ mpc' # "drain" ]_vars

\* C8 -- Error containment: a rate-limited, not-found, transport or
\* validation failure of an identifier never raises out of the run and never
\* stops the run (the other identifiers are still processed); once
\* process_ticker is over the identifier is in the failed set, and the run
\* returns the mapping of the identifiers that succeeded.
C8_ErrorContainment ==
    /\ mpc # "raised"
    /\ \A k \in Slots : data[k].cause = "contained" =>
          /\ ENABLED Next
          /\ pc[k] = "done" => tickers[k] \in failed_tickers
    /\ Returned => DOMAIN all_results = processed_tickers

\* C9 -- Backpressure by capacity: a worker whose identifier failed never
\* waits for queue space while it holds the BatchState lock.
C9_NoBlockingPut ==
    \A k \in Slots : (pc[k] = "put" /\ lock = k) => QueueHasRoom

\* C10 -- Bounded concurrency: at most MAX_WORKERS identifiers are inside
\* process_ticker at the same time.
C10_BoundedConcurrency == Cardinality(InProcessTicker) <= MAX_WORKERS

\* the pool is saturated while another identifier of the round still waits
C10_Witness ==
    /\ Cardinality(InProcessTicker) = MAX_WORKERS
    /\ \E k \in Slots : pc[k] = "queued"

=============================================================================
